---- MODULE Spec2Model ----
(***************************************************************************)
(* A model of m3u_editor.py: the playlist codec (M3UEntry.to_m3u_string,   *)
(* M3UParser), the edit history (save_undo_state / undo / redo), the       *)
(* editing operations of M3UEditorWindow over its table widget, the        *)
(* request for a validation run (validate_streams) and the worker thread   *)
(* StreamValidator.                                                        *)
(*                                                                         *)
(* Text is modelled as a sequence of one-character strings, so that        *)
(* strip, startswith, split and the regular expressions of the parser are  *)
(* computed character by character as the code computes them.              *)
(*                                                                         *)
(* A click on a column header sorts the rows of the table once (a stable   *)
(* sort on the texts of that column); the table is not sorted again when   *)
(* a cell changes.                                                         *)
(*                                                                         *)
(* Spec follows the window for MaxSteps handlers from its construction;    *)
(* HistSpec, CodecSpec and DupSpec drive the edit history, the codec and   *)
(* the duplicate search alone, over larger inputs.  ValidatorSpec follows  *)
(* a StreamValidator thread through run() with stop() called at any time.  *)
(* SlotSpec is Spec with verdicts arriving at the slot                     *)
(* on_validation_result.  ObjSpec follows the M3UEntry objects, by         *)
(* reference, through the handlers that take or restore snapshots or       *)
(* change an entry in place.  ParserSpec follows a call of parse_lines     *)
(* line by line, over every short list of sample lines.  RunSpec is the    *)
(* window with a validation run under way, its results arriving at the     *)
(* slot while the playlist is edited.                                      *)
(***************************************************************************)
EXTENDS Integers, Sequences, FiniteSets, TLC

VARIABLES
    entries,          \* self.entries: the playlist, a list of M3UEntry
    table,            \* self.table: the rows of the QTableWidget
    selection,        \* table.selectionModel().selectedRows(): row numbers from 0
    current_row,      \* table.currentRow(), -1 for none
    undo_stack,       \* self.undo_stack: list of playlist snapshots
    redo_stack,       \* self.redo_stack
    editing_started,  \* self.editing_started
    inputs,           \* the five QLineEdit fields of the editor panel
    status_label,     \* self.status_label text
    sorting_enabled,  \* table.isSortingEnabled()
    disk,             \* the playlist file on disk: File(text), or NoFile
    threads,          \* the StreamValidator objects started so far
    validator_thread, \* self.validator_thread: index into threads, 0 for None
    events,           \* signals queued from a worker thread to the GUI thread
    gui,              \* "idle"; "wait" while validate_streams blocks in
                      \* wait(); "aborted" once the process was aborted
    duplicate_rows,   \* the duplicate_rows list of the last find_duplicates
    last_op,          \* history: the handler that ran last, with its outcome
    snaps,            \* history: save_undo_state calls made by the last handler
    chain,            \* history: 1 after an undo, 2 after an undo and then a
                      \*          handler that took a snapshot, 3 after a redo
                      \*          that followed the two, else 0
    steps,            \* history: handlers run since construction
    pre,              \* history: playlist and stacks before the last undo
    parser,           \* a call of M3UParser.parse_lines: its argument, the
                      \* lines its loop has taken, its locals entries and
                      \* current_entry, and how far the call has come
    objs,             \* the M3UEntry objects: which the playlist holds, and
                      \* which each snapshot of the two stacks holds
    session,          \* history: the field changes update_current_entry_data
                      \*          has handled since the slot
                      \*          on_selection_changed last ran, and the
                      \*          snapshots it took for them
    track             \* history: snapshots and undos since the history was
                      \*          empty (kept by the deep-history actions)

vars == <<entries, table, selection, current_row, undo_stack, redo_stack,
          editing_started, inputs, status_label, sorting_enabled, disk,
          threads, validator_thread, events, gui, duplicate_rows,
          last_op, snaps, chain, steps, pre, objs, parser, session, track>>

--------------------------------------------------------------------------
(* Bounds of the model *)

\* add_entry is offered while the playlist is shorter than this
MaxEntries == 3
\* a behaviour of the window is followed for this many handlers
MaxSteps == 5
\* the deep-history specification lets the playlist grow to this length
DeepEntries == 52
\* the object-level specification: add_entry is offered while the playlist
\* is shorter than MaxObjEntries, and MaxObjSteps handlers are followed
MaxObjEntries == 2
MaxObjSteps == 6
\* the parser specification calls parse_lines with up to this many lines
MaxLines == 3

(* Program constants *)

MaxDepth == 50
EXTVLCOPT_LEN == 11

--------------------------------------------------------------------------
(* Text: Python str operations used by the code *)

WS == {" ", "\n"}

RECURSIVE LStrip(_)
LStrip(s) ==
    IF s # <<>> /\ Head(s) \in WS THEN LStrip(Tail(s)) ELSE s

RECURSIVE RStrip(_)
RStrip(s) ==
    IF s # <<>> /\ s[Len(s)] \in WS THEN RStrip(SubSeq(s, 1, Len(s) - 1)) ELSE s

\* str.strip()
Strip(s) == RStrip(LStrip(s))

\* str.startswith(p)
StartsWith(s, p) == Len(s) >= Len(p) /\ SubSeq(s, 1, Len(p)) = p

\* s[n:]
Drop(s, n) == SubSeq(s, n + 1, Len(s))

\* the positions at which p occurs in s
Occurrences(s, p) ==
    {i \in 1..(Len(s) - Len(p) + 1) : SubSeq(s, i, i + Len(p) - 1) = p}

\* the positions of character c in s
Positions(s, c) == {i \in 1..Len(s) : s[i] = c}

Min(S) == CHOOSE x \in S : \A y \in S : x <= y
Max(S) == CHOOSE x \in S : \A y \in S : x >= y

\* str.lower(), on the characters the model uses
LowerChar(c) ==
    CASE c = "A" -> "a"
      [] c = "B" -> "b"
      [] c = "H" -> "h"
      [] c = "U" -> "u"
      [] OTHER -> c

Lower(s) == [i \in 1..Len(s) |-> LowerChar(s[i])]

\* "sep".join(parts)
RECURSIVE Join(_, _)
Join(parts, sep) ==
    IF parts = <<>> THEN <<>>
    ELSE IF Len(parts) = 1 THEN parts[1]
    ELSE parts[1] \o sep \o Join(Tail(parts), sep)

\* concatenation of a list of texts
RECURSIVE Concat(_)
Concat(parts) ==
    IF parts = <<>> THEN <<>> ELSE Head(parts) \o Concat(Tail(parts))

--------------------------------------------------------------------------
(* Literals of the source *)

EXTM3U == <<"#", "E", "X", "T", "M", "3", "U">>
EXTINF == <<"#", "E", "X", "T", "I", "N", "F", ":">>
EXTVLCOPT == <<"#", "E", "X", "T", "V", "L", "C", "O", "P", "T", ":">>
HTTP_USER_AGENT == <<"h", "t", "t", "p", "-", "u", "s", "e", "r", "-",
                     "a", "g", "e", "n", "t", "=">>
GROUP_TITLE == <<"g", "r", "o", "u", "p", "-", "t", "i", "t", "l", "e", "=", "\"">>
TVG_LOGO == <<"t", "v", "g", "-", "l", "o", "g", "o", "=", "\"">>
MINUS_ONE == <<"-", "1">>
UNKNOWN == <<"U", "n", "k", "n", "o", "w", "n">>
NEW_CHANNEL == <<"N", "e", "w", " ", "C", "h", "a", "n", "n", "e", "l">>
HTTP_URL == <<"h", "t", "t", "p", ":", "/", "/">>
UNCATEGORIZED == <<"U", "n", "c", "a", "t", "e", "g", "o", "r", "i", "z", "e", "d">>

--------------------------------------------------------------------------
(* Data model: M3UEntry *)

\* M3UEntry(name, url) with the dataclass defaults
M3UEntry(name, url) ==
    [name |-> name, url |-> url, group |-> <<>>, logo |-> <<>>,
     duration |-> MINUS_ONE, user_agent |-> <<>>, raw_extinf |-> <<>>]

\* M3UEntry.to_m3u_string
to_m3u_string(e) ==
    LET attributes ==
            (IF e.group # <<>> THEN <<GROUP_TITLE \o e.group \o <<"\"">>>> ELSE <<>>)
            \o (IF e.logo # <<>> THEN <<TVG_LOGO \o e.logo \o <<"\"">>>> ELSE <<>>)
        joined == Join(attributes, <<" ">>)
        attr_str == IF joined # <<>> THEN <<" ">> \o joined ELSE joined
        lines ==
            <<EXTINF \o e.duration \o attr_str \o <<",">> \o e.name>>
            \o (IF e.user_agent # <<>>
                THEN <<EXTVLCOPT \o HTTP_USER_AGENT \o e.user_agent>>
                ELSE <<>>)
            \o <<e.url>>
    IN  Join(lines, <<"\n">>)

--------------------------------------------------------------------------
(* M3UParser *)

NoEntry == [none |-> TRUE]

DurationChars == {"-", "0", "1", "2", "3", "4", "5", "6", "7", "8", "9"}

\* the length of the longest prefix of s made of characters of S
RECURSIVE RunLength(_, _)
RunLength(s, S) ==
    IF s # <<>> /\ Head(s) \in S THEN 1 + RunLength(Tail(s), S) ELSE 0

\* re.search(key + '([^"]*)"', attrs): group(1) of the leftmost match, as
\* [found, value]
QuotedAttr(attrs, key) ==
    LET occ == Occurrences(attrs, key)
    IN  IF occ = {} THEN [found |-> FALSE, value |-> <<>>]
        ELSE LET after == Drop(attrs, Min(occ) + Len(key) - 1)
                 quotes == Positions(after, "\"")
             IN  IF quotes = {} THEN [found |-> FALSE, value |-> <<>>]
                 ELSE [found |-> TRUE,
                       value |-> SubSeq(after, 1, Min(quotes) - 1)]

\* line.split(',')[-1]
AfterLastComma(line) ==
    LET commas == Positions(line, ",")
    IN  IF commas = {} THEN line ELSE Drop(line, Max(commas))

\* the "#EXTINF:" branch as if the grammar never matched
ParseExtinf_fallback_only(line) ==
    [M3UEntry(<<>>, <<>>) EXCEPT !.name = AfterLastComma(line)]

\* the "#EXTINF:" branch of parse_lines: the entry built from a metadata line.
\* re.match(r'^#EXTINF:([-0-9]+)(.*),(.*)$', line): group(1) is the longest
\* run of duration characters, group(2) runs to the last comma, group(3) is
\* what follows it.
ParseExtinf(line) ==
    LET rest == Drop(line, Len(EXTINF))
        run == RunLength(rest, DurationChars)
        commas == Positions(rest, ",")
        fresh == M3UEntry(<<>>, <<>>)
    IN  IF run >= 1 /\ commas # {}
        THEN LET attrs == SubSeq(rest, run + 1, Max(commas) - 1)
                 grp == QuotedAttr(attrs, GROUP_TITLE)
                 logo == QuotedAttr(attrs, TVG_LOGO)
             IN  [fresh EXCEPT
                    !.duration = SubSeq(rest, 1, run),
                    !.name = Strip(Drop(rest, Max(commas))),
                    !.group = IF grp.found THEN grp.value ELSE @,
                    !.logo = IF logo.found THEN logo.value ELSE @]
        ELSE [fresh EXCEPT !.name = AfterLastComma(line)]

\* opt.split('=', 1)[1]
AfterFirstEquals(opt) == Drop(opt, Min(Positions(opt, "=")))

\* the iteration of parse_lines without current_entry = None after an append
ParseLine_keeping_current(st, raw) ==
    LET line == Strip(raw)
    IN  IF line = <<>> THEN st
        ELSE IF StartsWith(line, EXTM3U) THEN st
        ELSE IF StartsWith(line, EXTINF)
        THEN [st EXCEPT !.current_entry = ParseExtinf(line)]
        ELSE IF StartsWith(line, EXTVLCOPT)
        THEN IF st.current_entry # NoEntry
             THEN LET opt == Strip(Drop(line, EXTVLCOPT_LEN))
                  IN  IF StartsWith(Lower(opt), HTTP_USER_AGENT)
                      THEN [st EXCEPT !.current_entry.user_agent =
                                          AfterFirstEquals(opt)]
                      ELSE st
             ELSE st
        ELSE IF ~StartsWith(line, <<"#">>)
        THEN IF st.current_entry # NoEntry
             THEN [entries |-> Append(st.entries,
                                      [st.current_entry EXCEPT !.url = line]),
                   current_entry |-> st.current_entry]
             ELSE [st EXCEPT !.entries = Append(@, M3UEntry(UNKNOWN, line))]
        ELSE st

\* the iteration of parse_lines with an option line that, finding no entry
\* pending, sets the user agent of the entry appended last
ParseLine_option_reaching_back(st, raw) ==
    LET line == Strip(raw)
    IN  IF line = <<>> THEN st
        ELSE IF StartsWith(line, EXTM3U) THEN st
        ELSE IF StartsWith(line, EXTINF)
        THEN [st EXCEPT !.current_entry = ParseExtinf(line)]
        ELSE IF StartsWith(line, EXTVLCOPT)
        THEN IF st.current_entry # NoEntry
             THEN LET opt == Strip(Drop(line, EXTVLCOPT_LEN))
                  IN  IF StartsWith(Lower(opt), HTTP_USER_AGENT)
                      THEN [st EXCEPT !.current_entry.user_agent =
                                          AfterFirstEquals(opt)]
                      ELSE st
             ELSE LET opt == Strip(Drop(line, EXTVLCOPT_LEN))
                  IN  IF /\ st.entries # <<>>
                         /\ StartsWith(Lower(opt), HTTP_USER_AGENT)
                      THEN [st EXCEPT !.entries[Len(st.entries)].user_agent =
                                          AfterFirstEquals(opt)]
                      ELSE st
        ELSE IF ~StartsWith(line, <<"#">>)
        THEN IF st.current_entry # NoEntry
             THEN [entries |-> Append(st.entries,
                                      [st.current_entry EXCEPT !.url = line]),
                   current_entry |-> NoEntry]
             ELSE [st EXCEPT !.entries = Append(@, M3UEntry(UNKNOWN, line))]
        ELSE st

\* one iteration of the loop of parse_lines over state [entries, current_entry]
ParseLine(st, raw) ==
    LET line == Strip(raw)
    IN  IF line = <<>> THEN st
        ELSE IF StartsWith(line, EXTM3U) THEN st
        ELSE IF StartsWith(line, EXTINF)
        THEN [st EXCEPT !.current_entry = ParseExtinf(line)]
        ELSE IF StartsWith(line, EXTVLCOPT)
        THEN IF st.current_entry # NoEntry
             THEN LET opt == Strip(Drop(line, EXTVLCOPT_LEN))
                  IN  IF StartsWith(Lower(opt), HTTP_USER_AGENT)
                      THEN [st EXCEPT !.current_entry.user_agent =
                                          AfterFirstEquals(opt)]
                      ELSE st
             ELSE st
        ELSE IF ~StartsWith(line, <<"#">>)
        THEN IF st.current_entry # NoEntry
             THEN [entries |-> Append(st.entries,
                                      [st.current_entry EXCEPT !.url = line]),
                   current_entry |-> NoEntry]
             ELSE [st EXCEPT !.entries = Append(@, M3UEntry(UNKNOWN, line))]
        ELSE st

RECURSIVE ParseFrom(_, _)
ParseFrom(st, lines) ==
    IF lines = <<>> THEN st
    ELSE ParseFrom(ParseLine(st, Head(lines)), Tail(lines))

\* M3UParser.parse_lines
parse_lines(lines) ==
    ParseFrom([entries |-> <<>>, current_entry |-> NoEntry], lines).entries

\* f.readlines(): the text cut after every newline
RECURSIVE ReadLines(_)
ReadLines(text) ==
    IF text = <<>> THEN <<>>
    ELSE LET nl == Positions(text, "\n")
         IN  IF nl = {} THEN <<text>>
             ELSE <<SubSeq(text, 1, Min(nl))>> \o ReadLines(Drop(text, Min(nl)))

\* M3UParser.parse_file, on the text of a readable file
parse_file(text) == parse_lines(ReadLines(text))

\* the text M3UParser.save_file writes for a playlist
SaveText(es) ==
    EXTM3U \o <<"\n">> \o
    Concat([i \in 1..Len(es) |-> to_m3u_string(es[i]) \o <<"\n">>])

--------------------------------------------------------------------------
(* A call of parse_lines, followed line by line.  c is the record kept in  *)
(* parser: lines (the argument), i (the lines the loop has taken),         *)
(* entries and current_entry (the locals), status ("running", "returned"   *)
(* or "raised").                                                           *)

\* no call under way
NoCall ==
    [lines |-> <<>>, i |-> 0, entries |-> <<>>, current_entry |-> NoEntry,
     status |-> "returned"]

\* parse_lines(lines) entered
Call(lines) ==
    [lines |-> lines, i |-> 0, entries |-> <<>>, current_entry |-> NoEntry,
     status |-> "running"]

\* the "#EXTVLCOPT:" branch without its test of the key: split('=', 1)[1]
\* on every option line that finds an entry pending
ParseLineRaises_unguarded(st, raw) ==
    LET line == Strip(raw)
    IN  /\ line # <<>>
        /\ ~StartsWith(line, EXTM3U)
        /\ ~StartsWith(line, EXTINF)
        /\ StartsWith(line, EXTVLCOPT)
        /\ st.current_entry # NoEntry
        /\ Positions(Strip(Drop(line, EXTVLCOPT_LEN)), "=") = {}

\* the iteration of the loop of parse_lines for raw leaves by an exception:
\* the only expression of the body that can raise on a str is
\* opt.split('=', 1)[1] (IndexError when opt has no "="), evaluated when
\* opt.lower() starts with "http-user-agent="
ParseLineRaises(st, raw) ==
    LET line == Strip(raw)
    IN  /\ line # <<>>
        /\ ~StartsWith(line, EXTM3U)
        /\ ~StartsWith(line, EXTINF)
        /\ StartsWith(line, EXTVLCOPT)
        /\ st.current_entry # NoEntry
        /\ LET opt == Strip(Drop(line, EXTVLCOPT_LEN))
           IN  /\ StartsWith(Lower(opt), HTTP_USER_AGENT)
               /\ Positions(opt, "=") = {}

\* one iteration of the loop of the call c
parse_lines_step(c) ==
    LET st == [entries |-> c.entries, current_entry |-> c.current_entry]
        raw == c.lines[c.i + 1]
    IN  IF ParseLineRaises(st, raw)
        THEN [c EXCEPT !.status = "raised"]
        ELSE LET st2 == ParseLine(st, raw)
             IN  [c EXCEPT !.i = @ + 1,
                           !.entries = st2.entries,
                           !.current_entry = st2.current_entry]

--------------------------------------------------------------------------
(* M3UEditorWindow: the state its handlers work on.                        *)
(* A handler is a function on the record Window; an action installs the    *)
(* record the handler returns.  A table row keeps, as the code does under  *)
(* Qt.UserRole, a reference to its entry: here the entry's position in     *)
(* self.entries.  Rows are numbered from 0, as in the code.                *)

\* the editor fields, in the order clear_editor clears them
Fields == <<"name", "group", "logo", "url", "user_agent">>

NoInputs ==
    [name |-> <<>>, group |-> <<>>, logo |-> <<>>, url |-> <<>>,
     user_agent |-> <<>>]

\* no field change handled since the selection last changed
NoSession == [changes |-> 0, pushed |-> 0]

Window ==
    [entries |-> entries, table |-> table, selection |-> selection,
     current_row |-> current_row, undo_stack |-> undo_stack,
     redo_stack |-> redo_stack, editing_started |-> editing_started,
     inputs |-> inputs, status_label |-> status_label,
     sorting_enabled |-> sorting_enabled, snaps |-> 0, session |-> session]

Install(w) ==
    /\ entries' = w.entries
    /\ table' = w.table
    /\ selection' = w.selection
    /\ current_row' = w.current_row
    /\ undo_stack' = w.undo_stack
    /\ redo_stack' = w.redo_stack
    /\ editing_started' = w.editing_started
    /\ inputs' = w.inputs
    /\ status_label' = w.status_label
    /\ sorting_enabled' = w.sorting_enabled

Range(s) == {s[i] : i \in 1..Len(s)}

Front(s) == SubSeq(s, 1, Len(s) - 1)

Last(s) == s[Len(s)]

RemoveAt(s, i) == SubSeq(s, 1, i - 1) \o SubSeq(s, i + 1, Len(s))

\* copy.deepcopy(self.entries): a new list of new entries, field by field
deepcopy(es) ==
    [i \in 1..Len(es) |-> [f \in DOMAIN es[i] |-> es[i][f]]]

\* a faulty save_undo_state that keeps the redo stack
save_undo_state_keeping_redo(w) ==
    LET stack == IF Len(w.undo_stack) > MaxDepth
                 THEN Tail(w.undo_stack)
                 ELSE w.undo_stack
    IN  [w EXCEPT !.undo_stack = Append(stack, deepcopy(w.entries)),
                  !.status_label = "State saved.",
                  !.snaps = @ + 1]

\* M3UEditorWindow.save_undo_state
save_undo_state(w) ==
    LET stack == IF Len(w.undo_stack) > MaxDepth
                 THEN Tail(w.undo_stack)
                 ELSE w.undo_stack
    IN  [w EXCEPT !.undo_stack = Append(stack, deepcopy(w.entries)),
                  !.redo_stack = <<>>,
                  !.status_label = "State saved.",
                  !.snaps = @ + 1]

\* the row refresh_table builds for the entry at position i
NewRow(i, e) ==
    [entry |-> i, group |-> e.group, name |-> e.name, url |-> e.url,
     valid |-> "none", hidden |-> FALSE, probed |-> <<>>]

\* M3UEditorWindow.refresh_table: the rows are rebuilt with the table's
\* signals blocked, so the selection is dropped without on_selection_changed
refresh_table(w) ==
    [w EXCEPT !.table = [i \in 1..Len(w.entries) |-> NewRow(i, w.entries[i])],
              !.selection = <<>>,
              !.current_row = -1,
              !.sorting_enabled = TRUE]

\* M3UEditorWindow.sync_entries_from_table
sync_entries_from_table(w) ==
    [w EXCEPT !.entries = [r \in 1..Len(w.table) |-> w.entries[w.table[r].entry]],
              !.table = [r \in 1..Len(w.table) |-> [w.table[r] EXCEPT !.entry = r]]]

\* update_current_entry_data as it would be without the editing_started
\* flag: a snapshot for every field change
update_current_entry_data_each_time(w) ==
    IF w.selection = <<>> THEN w
    ELSE LET row == w.selection[1]
             idx == w.table[row + 1].entry
             w1 == [save_undo_state(w) EXCEPT !.session.pushed = @ + 1]
         IN  [w1 EXCEPT !.session.changes = @ + 1,
                        !.entries[idx].name = w.inputs.name,
                        !.entries[idx].group = w.inputs.group,
                        !.entries[idx].logo = w.inputs.logo,
                        !.entries[idx].url = w.inputs.url,
                        !.entries[idx].user_agent = w.inputs.user_agent,
                        !.table[row + 1].group = w.inputs.group,
                        !.table[row + 1].name = w.inputs.name,
                        !.table[row + 1].url = w.inputs.url]

\* M3UEditorWindow.update_current_entry_data
update_current_entry_data(w) ==
    IF w.selection = <<>> THEN w
    ELSE LET row == w.selection[1]
             idx == w.table[row + 1].entry
             w1 == IF ~w.editing_started
                   THEN [save_undo_state(w) EXCEPT !.editing_started = TRUE,
                                                   !.session.pushed = @ + 1]
                   ELSE w
         IN  [w1 EXCEPT !.session.changes = @ + 1,
                        !.entries[idx].name = w.inputs.name,
                        !.entries[idx].group = w.inputs.group,
                        !.entries[idx].logo = w.inputs.logo,
                        !.entries[idx].url = w.inputs.url,
                        !.entries[idx].user_agent = w.inputs.user_agent,
                        !.table[row + 1].group = w.inputs.group,
                        !.table[row + 1].name = w.inputs.name,
                        !.table[row + 1].url = w.inputs.url]

\* QLineEdit.setText / clear with its signals connected: textChanged fires
\* when the text changes, and update_current_entry_data is its slot
SetText(w, f, text) ==
    IF w.inputs[f] = text THEN w
    ELSE update_current_entry_data([w EXCEPT !.inputs[f] = text])

\* M3UEditorWindow.clear_editor
clear_editor(w) ==
    LET w1 == SetText(w, "name", <<>>)
        w2 == SetText(w1, "group", <<>>)
        w3 == SetText(w2, "logo", <<>>)
        w4 == SetText(w3, "url", <<>>)
    IN  SetText(w4, "user_agent", <<>>)

\* M3UEditorWindow.on_selection_changed
on_selection_changed(w) ==
    IF w.selection # <<>>
    THEN LET e == w.entries[w.table[w.selection[1] + 1].entry]
         IN  [w EXCEPT !.editing_started = FALSE,
                       !.session = NoSession,
                       !.inputs = [name |-> e.name, group |-> e.group,
                                   logo |-> e.logo, url |-> e.url,
                                   user_agent |-> e.user_agent]]
    ELSE clear_editor([w EXCEPT !.session = NoSession])

\* the selection model takes a new selection; itemSelectionChanged, whose
\* slot is on_selection_changed, fires when the set of selected rows changes
SetSelection(w, sel, cur) ==
    LET w1 == [w EXCEPT !.selection = sel, !.current_row = cur]
    IN  IF Range(sel) # Range(w.selection) THEN on_selection_changed(w1) ELSE w1

\* QTableWidget.selectRow
selectRow(w, row) ==
    IF row >= 0 /\ row < Len(w.table) THEN SetSelection(w, <<row>>, row) ELSE w

\* QTableWidget.clearSelection
clearSelection(w) == SetSelection(w, <<>>, w.current_row)

\* the selected rows left, renumbered, when row is removed
RECURSIVE SelectionWithout(_, _)
SelectionWithout(sel, row) ==
    IF sel = <<>> THEN <<>>
    ELSE IF Head(sel) = row THEN SelectionWithout(Tail(sel), row)
    ELSE <<IF Head(sel) > row THEN Head(sel) - 1 ELSE Head(sel)>>
         \o SelectionWithout(Tail(sel), row)

\* QTableWidget.removeRow
removeRow(w, row) ==
    LET rows == RemoveAt(w.table, row + 1)
        cur == IF w.current_row > row THEN w.current_row - 1
               ELSE IF w.current_row = row /\ row >= Len(rows) THEN Len(rows) - 1
               ELSE w.current_row
        w1 == [w EXCEPT !.table = rows,
                        !.selection = SelectionWithout(w.selection, row),
                        !.current_row = cur]
    IN  IF row \in Range(w.selection) THEN on_selection_changed(w1) ELSE w1

\* undo as it would be if it took the oldest snapshot instead of the newest
undo_pops_oldest(w) ==
    IF w.undo_stack = <<>>
    THEN [w EXCEPT !.status_label = "Nothing to undo."]
    ELSE LET w1 == [w EXCEPT !.redo_stack = Append(@, deepcopy(w.entries)),
                             !.entries = Head(w.undo_stack),
                             !.undo_stack = Tail(w.undo_stack)]
         IN  [clear_editor(refresh_table(w1)) EXCEPT
                 !.status_label = "Undone last action."]

\* M3UEditorWindow.undo
undo(w) ==
    IF w.undo_stack = <<>>
    THEN [w EXCEPT !.status_label = "Nothing to undo."]
    ELSE LET w1 == [w EXCEPT !.redo_stack = Append(@, deepcopy(w.entries)),
                             !.entries = Last(w.undo_stack),
                             !.undo_stack = Front(w.undo_stack)]
         IN  [clear_editor(refresh_table(w1)) EXCEPT
                 !.status_label = "Undone last action."]

\* a faulty redo that forgets to push the current playlist for undo
redo_without_push(w) ==
    IF w.redo_stack = <<>>
    THEN [w EXCEPT !.status_label = "Nothing to redo."]
    ELSE LET w1 == [w EXCEPT !.entries = Last(w.redo_stack),
                             !.redo_stack = Front(w.redo_stack)]
         IN  [clear_editor(refresh_table(w1)) EXCEPT
                 !.status_label = "Redone last action."]

\* a faulty redo that does not test for an empty redo stack
redo_without_test(w) ==
    LET w1 == [w EXCEPT !.undo_stack = Append(@, deepcopy(w.entries)),
                        !.entries = IF w.redo_stack = <<>> THEN <<>>
                                    ELSE Last(w.redo_stack),
                        !.redo_stack = IF @ = <<>> THEN <<>> ELSE Front(@)]
    IN  [clear_editor(refresh_table(w1)) EXCEPT
            !.status_label = "Redone last action."]

\* M3UEditorWindow.redo
redo(w) ==
    IF w.redo_stack = <<>>
    THEN [w EXCEPT !.status_label = "Nothing to redo."]
    ELSE LET w1 == [w EXCEPT !.undo_stack = Append(@, deepcopy(w.entries)),
                             !.entries = Last(w.redo_stack),
                             !.redo_stack = Front(w.redo_stack)]
         IN  [clear_editor(refresh_table(w1)) EXCEPT
                 !.status_label = "Redone last action."]

\* M3UEditorWindow.add_entry
add_entry(w) ==
    LET new_entry == [M3UEntry(NEW_CHANNEL, HTTP_URL) EXCEPT !.group = UNCATEGORIZED]
        w1 == [save_undo_state(w) EXCEPT !.entries = Append(@, new_entry)]
    IN  selectRow(refresh_table(w1), Len(w1.entries) - 1)

\* a[i], a[j] = a[j], a[i], on positions counted from 1
Swap(a, i, j) ==
    [k \in 1..Len(a) |-> IF k = i THEN a[j] ELSE IF k = j THEN a[i] ELSE a[k]]

\* M3UEditorWindow.delete_entry; yes: the answer to "Confirm Delete"
delete_entry(w, yes) ==
    IF w.selection = <<>> THEN w
    ELSE IF yes
    THEN LET row == w.selection[1]
             w1 == removeRow(save_undo_state(w), row)
         IN  clear_editor(sync_entries_from_table(w1))
    ELSE w

\* M3UEditorWindow.move_up
move_up(w) ==
    LET w1 == sync_entries_from_table(save_undo_state(w))
    IN  IF w1.selection = <<>> THEN w1
        ELSE LET row == w1.selection[1]
             IN  IF row > 0
                 THEN LET w2 == [w1 EXCEPT !.entries = Swap(@, row + 1, row)]
                      IN  selectRow(refresh_table(w2), row - 1)
                 ELSE w1

\* M3UEditorWindow.move_down
move_down(w) ==
    LET w1 == sync_entries_from_table(save_undo_state(w))
    IN  IF w1.selection = <<>> THEN w1
        ELSE LET row == w1.selection[1]
             IN  IF row < Len(w1.entries) - 1
                 THEN LET w2 == [w1 EXCEPT !.entries = Swap(@, row + 1, row + 2)]
                      IN  selectRow(refresh_table(w2), row + 1)
                 ELSE w1

\* the loop of bulk_edit_group over the selected rows
RECURSIVE SetGroups(_, _, _)
SetGroups(w, rows, new_group) ==
    IF rows = <<>> THEN w
    ELSE LET row == Head(rows)
             idx == w.table[row + 1].entry
         IN  SetGroups([w EXCEPT !.entries[idx].group = new_group,
                                 !.table[row + 1].group = new_group],
                       Tail(rows), new_group)

\* M3UEditorWindow.bulk_edit_group; (new_group, ok): what the input dialog returns
bulk_edit_group(w, new_group, ok) ==
    IF w.selection = <<>> THEN w
    ELSE IF ok
    THEN LET w1 == SetGroups(save_undo_state(w), w.selection, new_group)
         IN  IF w1.selection[1] = w1.current_row
             THEN SetText(w1, "group", new_group)
             ELSE w1
    ELSE w

\* the loop of find_duplicates over enumerate(self.entries), from index i
\* a faulty duplicate search that compares URLs without regard to case
RECURSIVE DuplicateRowsIgnoringCase(_, _, _)
DuplicateRowsIgnoringCase(es, i, seen_urls) ==
    IF i >= Len(es) THEN <<>>
    ELSE IF Lower(es[i + 1].url) \in seen_urls
    THEN <<i>> \o DuplicateRowsIgnoringCase(es, i + 1, seen_urls)
    ELSE DuplicateRowsIgnoringCase(es, i + 1,
                                   seen_urls \cup {Lower(es[i + 1].url)})

RECURSIVE DuplicateRowsFrom(_, _, _)
DuplicateRowsFrom(es, i, seen_urls) ==
    IF i >= Len(es) THEN <<>>
    ELSE IF es[i + 1].url \in seen_urls
    THEN <<i>> \o DuplicateRowsFrom(es, i + 1, seen_urls)
    ELSE DuplicateRowsFrom(es, i + 1, seen_urls \cup {es[i + 1].url})

\* the duplicate_rows list find_duplicates builds
DuplicateRows(es) == DuplicateRowsFrom(es, 0, {})

\* the loop of find_duplicates that selects each duplicate row
RECURSIVE SelectEach(_, _)
SelectEach(w, rows) ==
    IF rows = <<>> THEN w ELSE SelectEach(selectRow(w, Head(rows)), Tail(rows))

\* M3UEditorWindow.find_duplicates; reply: the answer to "delete them now?",
\* yes: the answer to delete_entry's own question
find_duplicates(w, reply, yes) ==
    LET duplicate == DuplicateRows(w.entries)
    IN  IF duplicate = <<>> THEN w
        ELSE LET w1 == SelectEach(clearSelection(w), duplicate)
             IN  IF reply THEN delete_entry(w1, yes) ELSE w1

\* the rows remove_invalid_streams collects, in increasing order
RECURSIVE InvalidRowsFrom(_, _)
InvalidRowsFrom(rows, row) ==
    IF row >= Len(rows) THEN <<>>
    ELSE (IF rows[row + 1].valid = "invalid" THEN <<row>> ELSE <<>>)
         \o InvalidRowsFrom(rows, row + 1)

\* removeRow for each row of a list, last first
RECURSIVE RemoveRowsReversed(_, _)
RemoveRowsReversed(w, rows) ==
    IF rows = <<>> THEN w
    ELSE RemoveRowsReversed(removeRow(w, Last(rows)), Front(rows))

\* M3UEditorWindow.remove_invalid_streams; yes: the answer to "Confirm"
remove_invalid_streams(w, yes) ==
    LET rows_to_remove == InvalidRowsFrom(w.table, 0)
    IN  IF rows_to_remove = <<>> THEN w
        ELSE IF yes
        THEN sync_entries_from_table(
                 RemoveRowsReversed(save_undo_state(w), rows_to_remove))
        ELSE w

\* M3UEditorWindow.on_validation_result, the slot of StreamValidator.result:
\* the verdict is stored on the items of row row_index (UserRole + 1; the
\* colour and the tooltip go with it), the entry is not touched. probed
\* remembers the URL and the header the row's entry has at that moment.
on_validation_result(w, row_index, is_valid) ==
    IF row_index < Len(w.table)
    THEN LET e == w.entries[w.table[row_index + 1].entry]
         IN  [w EXCEPT !.table[row_index + 1].valid =
                           IF is_valid THEN "valid" ELSE "invalid",
                       !.table[row_index + 1].probed =
                           <<e.url, e.user_agent>>]
    ELSE w

\* the task tuples of the selected rows, in selection order
RECURSIVE TasksOf(_, _)
TasksOf(w, rows) ==
    IF rows = <<>> THEN <<>>
    ELSE LET e == w.entries[w.table[Head(rows) + 1].entry]
         IN  <<<<Head(rows), e.url, e.user_agent>>>> \o TasksOf(w, Tail(rows))

\* the rows that are not hidden, from row on
RECURSIVE VisibleRowsFrom(_, _)
VisibleRowsFrom(rows, row) ==
    IF row >= Len(rows) THEN <<>>
    ELSE (IF ~rows[row + 1].hidden THEN <<row>> ELSE <<>>)
         \o VisibleRowsFrom(rows, row + 1)

\* rows_to_check of validate_streams
RowsToCheck(w) ==
    IF w.selection # <<>>
    THEN TasksOf(w, w.selection)
    ELSE TasksOf(w, VisibleRowsFrom(w.table, 0))

\* "for row, _ in rows_to_check": unpacking a tuple into two names raises
\* ValueError unless the tuple has two elements
UnpackTargets == 2

ResetColoursRaises(rows_to_check) ==
    rows_to_check # <<>> /\ Len(rows_to_check[1]) # UnpackTargets

\* a file: its text, or one that open() cannot read
File(text) == [readable |-> TRUE, text |-> text]

NoFile == [readable |-> FALSE, text |-> <<>>]

\* a faulty load_m3u that empties the playlist before it reads the file
load_m3u_clearing_first(w, file) ==
    LET w1 == [w EXCEPT !.undo_stack = <<>>, !.redo_stack = <<>>,
                        !.entries = <<>>]
    IN  IF ~file.readable THEN w1
        ELSE [refresh_table([w1 EXCEPT !.entries = parse_file(file.text)])
                 EXCEPT !.status_label = "Loaded"]

\* M3UEditorWindow.load_m3u once a file was chosen
load_m3u(w, file) ==
    LET w1 == [w EXCEPT !.undo_stack = <<>>, !.redo_stack = <<>>]
    IN  IF ~file.readable THEN w1
        ELSE [refresh_table([w1 EXCEPT !.entries = parse_file(file.text)])
                 EXCEPT !.status_label = "Loaded"]

\* content.splitlines(): the lines without their line ends
RECURSIVE splitlines(_)
splitlines(text) ==
    IF text = <<>> THEN <<>>
    ELSE LET nl == Positions(text, "\n")
         IN  IF nl = {} THEN <<text>>
             ELSE <<SubSeq(text, 1, Min(nl) - 1)>>
                      \o splitlines(Drop(text, Min(nl)))

\* M3UEditorWindow.load_m3u_from_url once a URL was entered; response: the
\* content urlopen and read() deliver, or NoFile when they raise
load_m3u_from_url(w, response) ==
    IF ~response.readable THEN w
    ELSE LET w1 == [w EXCEPT !.undo_stack = <<>>, !.redo_stack = <<>>,
                             !.entries = parse_lines(splitlines(response.text))]
         IN  [refresh_table(w1) EXCEPT !.status_label = "Loaded"]

\* M3UEditorWindow.save_m3u once a file name was chosen: the window, and
\* the file M3UParser.save_file writes
save_m3u(w) == [sync_entries_from_table(w) EXCEPT !.status_label = "Saved"]

save_file(es) == File(SaveText(es))

\* what save_file passes to f.write, call by call
Writes(es) ==
    <<EXTM3U \o <<"\n">>>> \o [i \in 1..Len(es) |-> to_m3u_string(es[i]) \o <<"\n">>]

\* M3UParser.save_file when it raises; old: the file as it was; written:
\* the f.write calls that reached the file before the exception, or -1
\* when open() itself raised.  open(filepath, 'w') empties the file.
save_file_raising(es, old, written) ==
    IF written < 0 THEN old
    ELSE File(Concat(SubSeq(Writes(es), 1, written)))

\* M3UEditorWindow.save_m3u when save_file raises
save_m3u_failing(w) == sync_entries_from_table(w)

\* the characters of the model in code-point order, for comparing cell texts
CodePoints ==
    <<"\n", " ", "\"", "#", ",", "-", "/", "0", "1", "2", "3", "4", "5", "6",
      "7", "8", "9", ":", "=", "A", "B", "C", "E", "F", "H", "I", "L", "M",
      "N", "O", "P", "T", "U", "V", "X", "a", "b", "c", "d", "e", "g", "h",
      "i", "k", "l", "n", "o", "p", "r", "s", "t", "u", "v", "w", "x", "y",
      "z">>

Code(c) == CHOOSE i \in 1..Len(CodePoints) : CodePoints[i] = c

\* a < b for two cell texts
RECURSIVE TextLess(_, _)
TextLess(a, b) ==
    IF b = <<>> THEN FALSE
    ELSE IF a = <<>> THEN TRUE
    ELSE IF Head(a) = Head(b) THEN TextLess(Tail(a), Tail(b))
    ELSE Code(Head(a)) < Code(Head(b))

\* the order of the rows after a stable sort on column col: the old row
\* numbers (from 1) in their new order
SortedOrder(rows, col, descending) ==
    LET n == Len(rows)
        Before(x, y) == IF descending THEN TextLess(rows[y][col], rows[x][col])
                        ELSE TextLess(rows[x][col], rows[y][col])
    IN  CHOOSE p \in [1..n -> 1..n] :
            /\ \A i, j \in 1..n : i # j => p[i] # p[j]
            /\ \A i, j \in 1..n :
                   i < j => /\ ~Before(p[j], p[i])
                            /\ (~Before(p[i], p[j]) => p[i] < p[j])

\* a click on a column header of the table while sorting is enabled: the
\* rows are sorted, and the selection stays on the same items
sortByColumn(w, col, descending) ==
    LET p == SortedOrder(w.table, col, descending)
        NewPos(old) == CHOOSE i \in 1..Len(w.table) : p[i] = old + 1
    IN  [w EXCEPT !.table = [i \in 1..Len(w.table) |-> w.table[p[i]]],
                  !.selection = [k \in 1..Len(w.selection) |->
                                    NewPos(w.selection[k]) - 1],
                  !.current_row = IF @ >= 0 THEN NewPos(@) - 1 ELSE @]

ALL_GROUPS == <<"A", "l", "l", " ", "G", "r", "o", "u", "p", "s">>

\* M3UEditorWindow.filter_table; text: the search bar, lower-cased by the
\* handler; group_filter: the current text of the group combo box
filter_table(w, text, group_filter) ==
    LET Hide(r) ==
            LET name_match == text = <<>> \/ Occurrences(Lower(r.name), Lower(text)) # {}
                group_match == group_filter = ALL_GROUPS \/ r.group = group_filter
            IN  ~(name_match /\ group_match)
    IN  [w EXCEPT !.table = [i \in 1..Len(w.table) |->
                                [w.table[i] EXCEPT !.hidden = Hide(w.table[i])]]]

--------------------------------------------------------------------------
(* History variables: what the claims about sequences of handlers read *)

NoPre == [valid |-> FALSE, entries |-> <<>>, undo_stack |-> <<>>,
          redo_stack |-> <<>>]

NoTrack == [base |-> <<>>, pushes |-> -1, undos |-> 0]

\* the history variables after handler `name` has returned window w
History(name, w) ==
    /\ last_op' = name
    /\ snaps' = w.snaps
    /\ session' = w.session
    /\ chain' = IF name = "undo" THEN 1
                ELSE IF chain = 1 /\ w.snaps > 0 THEN 2
                ELSE IF chain = 2 /\ name \in {"redo", "redo_nothing"} THEN 3
                ELSE 0
    /\ pre' = IF name = "undo"
              THEN [valid |-> TRUE, entries |-> entries,
                    undo_stack |-> undo_stack, redo_stack |-> redo_stack]
              ELSE IF name = "redo" /\ last_op = "undo" THEN pre
              ELSE NoPre

\* track counts, from a state with both stacks empty (playlist base), the
\* save_undo_state calls made since, and then the undos made right after
\* them; any other handler in between ends the count
Tracked(name, w) ==
    track' = IF name = "undo"
             THEN IF track.pushes > 0
                  THEN [track EXCEPT !.undos = @ + 1]
                  ELSE NoTrack
             ELSE IF w.snaps > 0
             THEN IF track.pushes >= 0 /\ track.undos = 0
                  THEN [track EXCEPT !.pushes = @ + w.snaps]
                  ELSE NoTrack
             ELSE IF w.undo_stack = <<>> /\ w.redo_stack = <<>>
             THEN [base |-> w.entries, pushes |-> 0, undos |-> 0]
             ELSE NoTrack

--------------------------------------------------------------------------
(* The M3UEntry objects.  Above, a playlist is the sequence of its entries' *)
(* values; here it is a list of references into a heap, so that two lists *)
(* holding the same object can be told from two lists holding equal ones. *)
(* o is the record kept in objs: heap (object id -> M3UEntry), entries,    *)
(* undo_stack and redo_stack (lists of ids), the table's selection and     *)
(* validity data (rows in playlist order), editing_started, and op, the    *)
(* handler that ran last.                                                  *)

NoObjects ==
    [heap |-> <<>>, entries |-> <<>>, undo_stack |-> <<>>,
     redo_stack |-> <<>>, selection |-> <<>>, valid |-> <<>>,
     editing_started |-> FALSE, op |-> "init"]

\* the id a newly created object gets: the least one not in use
NewId(h) ==
    CHOOSE id \in 0..Cardinality(DOMAIN h) :
        /\ id \notin DOMAIN h
        /\ \A j \in 0..(id - 1) : j \in DOMAIN h

\* heap h with a new object id of contents e
Allocate(h, id, e) ==
    [k \in DOMAIN h \cup {id} |-> IF k = id THEN e ELSE h[k]]

\* copy.copy of a list of entries: a new list of the same objects
copy_copy(h, ids) == [heap |-> h, list |-> ids]

\* copy.deepcopy of a list of entries: a new list of new objects, each with
\* the contents of the object it copies
RECURSIVE copy_deepcopy(_, _)
copy_deepcopy(h, ids) ==
    IF ids = <<>> THEN [heap |-> h, list |-> <<>>]
    ELSE LET id == NewId(h)
             rest == copy_deepcopy(Allocate(h, id, h[Head(ids)]), Tail(ids))
         IN  [heap |-> rest.heap, list |-> <<id>> \o rest.list]

\* the objects a list of snapshots holds
RECURSIVE ObjectsOf(_)
ObjectsOf(stack) ==
    IF stack = <<>> THEN {}
    ELSE Range(Head(stack)) \cup ObjectsOf(Tail(stack))

\* the objects the snapshots of the two stacks hold
SnapshotObjects(o) == ObjectsOf(o.undo_stack) \cup ObjectsOf(o.redo_stack)

\* objects nothing refers to any more are freed
Collect(o) ==
    [o EXCEPT !.heap = [id \in Range(o.entries) \cup SnapshotObjects(o)
                            |-> o.heap[id]]]

\* M3UEditorWindow.save_undo_state, on objects
save_undo_state_obj(o) ==
    LET stack == IF Len(o.undo_stack) > MaxDepth
                 THEN Tail(o.undo_stack)
                 ELSE o.undo_stack
        c == copy_deepcopy(o.heap, o.entries)
    IN  [o EXCEPT !.heap = c.heap,
                  !.undo_stack = Append(stack, c.list),
                  !.redo_stack = <<>>]

\* refresh_table, on objects: new items without validity data, no selection
refresh_table_obj(o) ==
    [o EXCEPT !.valid = [i \in 1..Len(o.entries) |-> "none"],
              !.selection = <<>>]

\* M3UEditorWindow.undo, on objects
undo_obj(o) ==
    IF o.undo_stack = <<>> THEN o
    ELSE LET c == copy_deepcopy(o.heap, o.entries)
         IN  refresh_table_obj(
                 [o EXCEPT !.heap = c.heap,
                           !.redo_stack = Append(@, c.list),
                           !.entries = Last(o.undo_stack),
                           !.undo_stack = Front(o.undo_stack)])

\* M3UEditorWindow.redo, on objects
redo_obj(o) ==
    IF o.redo_stack = <<>> THEN o
    ELSE LET c == copy_deepcopy(o.heap, o.entries)
         IN  refresh_table_obj(
                 [o EXCEPT !.heap = c.heap,
                           !.undo_stack = Append(@, c.list),
                           !.entries = Last(o.redo_stack),
                           !.redo_stack = Front(o.redo_stack)])

\* M3UEditorWindow.on_selection_changed, on objects, the table's selection
\* having become sel
on_selection_changed_obj(o, sel) ==
    [o EXCEPT !.selection = sel,
              !.editing_started = IF sel # <<>> THEN FALSE ELSE @]

\* M3UEditorWindow.add_entry, on objects
add_entry_obj(o) ==
    LET o1 == save_undo_state_obj(o)
        id == NewId(o1.heap)
        new_entry == [M3UEntry(NEW_CHANNEL, HTTP_URL) EXCEPT
                         !.group = UNCATEGORIZED]
        o2 == [o1 EXCEPT !.heap = Allocate(o1.heap, id, new_entry),
                         !.entries = Append(@, id)]
    IN  on_selection_changed_obj(refresh_table_obj(o2),
                                 <<Len(o2.entries) - 1>>)

\* M3UEditorWindow.update_current_entry_data, on objects, the editor field
\* f holding text and the others what the entry has
update_current_entry_data_obj(o, f, text) ==
    IF o.selection = <<>> THEN o
    ELSE LET o1 == IF ~o.editing_started
                   THEN [save_undo_state_obj(o) EXCEPT
                            !.editing_started = TRUE]
                   ELSE o
             entry == o.entries[o.selection[1] + 1]
         IN  [o1 EXCEPT !.heap[entry][f] = text]

\* the loop of bulk_edit_group over the selected rows, on objects
RECURSIVE SetGroups_obj(_, _, _)
SetGroups_obj(o, rows, new_group) ==
    IF rows = <<>> THEN o
    ELSE SetGroups_obj(
             [o EXCEPT !.heap[o.entries[Head(rows) + 1]].group = new_group],
             Tail(rows), new_group)

\* M3UEditorWindow.bulk_edit_group, on objects, the dialog accepted: the
\* group field shows the first selected entry's group, and its setText
\* reaches update_current_entry_data when that row is the current one
\* (the row selected last) and the text changes
bulk_edit_group_obj(o, new_group) ==
    IF o.selection = <<>> THEN o
    ELSE LET shown == o.heap[o.entries[o.selection[1] + 1]].group
             o1 == SetGroups_obj(save_undo_state_obj(o), o.selection,
                                 new_group)
         IN  IF o.selection[1] = Last(o.selection) /\ shown # new_group
             THEN update_current_entry_data_obj(o1, "group", new_group)
             ELSE o1

\* M3UEditorWindow.on_validation_result, on objects: the verdict goes to the
\* items of the row, no M3UEntry is touched
on_validation_result_obj(o, row_index, is_valid) ==
    IF row_index < Len(o.valid)
    THEN [o EXCEPT !.valid[row_index + 1] =
                       IF is_valid THEN "valid" ELSE "invalid"]
    ELSE o

--------------------------------------------------------------------------
(* The state after M3UEditorWindow.__init__ *)

\* the window showing playlist p with an empty history, the state after
\* __init__ (p empty) or after a successful load of p, beside the
\* StreamValidator objects ths
Constructed(p, ths) ==
    /\ entries = p
    /\ table = [i \in 1..Len(p) |-> NewRow(i, p[i])]
    /\ selection = <<>>
    /\ current_row = -1
    /\ undo_stack = <<>>
    /\ redo_stack = <<>>
    /\ editing_started = FALSE
    /\ inputs = NoInputs
    /\ status_label = "Ready"
    /\ sorting_enabled = TRUE
    /\ disk = NoFile
    /\ threads = ths
    /\ validator_thread = 0
    /\ events = <<>>
    /\ gui = "idle"
    /\ duplicate_rows = <<>>
    /\ last_op = "init"
    /\ snaps = 0
    /\ chain = 0
    /\ steps = 0
    /\ pre = NoPre
    /\ session = NoSession
    /\ objs = NoObjects
    /\ track = [base |-> p, pushes |-> 0, undos |-> 0]

\* the same, no call of parse_lines being under way
Started(p, ths) == Constructed(p, ths) /\ parser = NoCall

Loaded(p) == Started(p, <<>>)

Init == Loaded(<<>>)

\* what the handlers of the window leave alone
OtherVars ==
    <<disk, threads, validator_thread, events, gui, duplicate_rows, objs,
      parser>>

\* one more handler has run, of the MaxSteps a behaviour is followed for
Counted ==
    /\ steps < MaxSteps
    /\ steps' = steps + 1
    /\ UNCHANGED track

--------------------------------------------------------------------------
(* Actions: one per handler *)

\* the Undo button
UndoClicked(w) ==
    /\ gui = "idle"
    /\ w = undo(Window)
    /\ Install(w)
    /\ History(IF undo_stack = <<>> THEN "undo_nothing" ELSE "undo", w)
    /\ UNCHANGED OtherVars

Undo == \E w \in {undo(Window)} : UndoClicked(w) /\ Counted

\* the Redo button
RedoClicked(w) ==
    /\ gui = "idle"
    /\ w = redo(Window)
    /\ Install(w)
    /\ History(IF redo_stack = <<>> THEN "redo_nothing" ELSE "redo", w)
    /\ UNCHANGED OtherVars

Redo == \E w \in {redo(Window)} : RedoClicked(w) /\ Counted

\* the Add Channel button, offered while the playlist is shorter than
\* maxEntries
AddClicked(w, maxEntries) ==
    /\ gui = "idle"
    /\ Len(entries) < maxEntries
    /\ w = add_entry(Window)
    /\ Install(w)
    /\ History("add_entry", w)
    /\ UNCHANGED OtherVars

AddEntry ==
    \E w \in {add_entry(Window)} :
        AddClicked(w, MaxEntries) /\ Counted

\* the same three handlers, with the count of snapshots and undos kept
DeepUndo ==
    \E w \in {undo(Window)} :
        /\ UndoClicked(w)
        /\ Tracked(IF undo_stack = <<>> THEN "undo_nothing" ELSE "undo", w)
        /\ UNCHANGED steps

DeepRedo ==
    \E w \in {redo(Window)} :
        RedoClicked(w) /\ Tracked("redo", w) /\ UNCHANGED steps

DeepAddEntry ==
    \E w \in {add_entry(Window)} :
        /\ AddClicked(w, DeepEntries)
        /\ Tracked("add_entry", w)
        /\ UNCHANGED steps

\* snapshot-taking handlers are offered while the undo stack is short
\* the Delete button; yes: the answer to the confirmation
DeleteEntry ==
    /\ gui = "idle"
    /\ Counted
    /\ \E yes \in BOOLEAN :
           LET w == delete_entry(Window, yes)
           IN  Install(w) /\ History("delete_entry", w)
    /\ UNCHANGED OtherVars

\* the Move Up button
MoveUp ==
    /\ gui = "idle"
    /\ Counted
    /\ LET w == move_up(Window)
       IN  Install(w) /\ History("move_up", w)
    /\ UNCHANGED OtherVars

\* the Move Down button
MoveDown ==
    /\ gui = "idle"
    /\ Counted
    /\ LET w == move_down(Window)
       IN  Install(w) /\ History("move_down", w)
    /\ UNCHANGED OtherVars

\* the texts the user types into an editor field or a dialog
TypedTexts == {<<"a">>}

\* the editor fields the user types into
TypedFields == {"name", "url"}

\* the Bulk Edit Group button
BulkEditGroup ==
    /\ gui = "idle"
    /\ Counted
    /\ \E new_group \in TypedTexts, ok \in BOOLEAN :
           LET w == bulk_edit_group(Window, new_group, ok)
           IN  Install(w) /\ History("bulk_edit_group", w)
    /\ UNCHANGED OtherVars

\* the lists selectedRows() can report: up to two distinct rows
Selections(n) ==
    {<<>>} \cup {<<r>> : r \in 0..(n - 1)}
           \cup ({<<r, q>> : r, q \in 0..(n - 1)} \ {<<r, r>> : r \in 0..(n - 1)})

\* the user changes the selection in the table (visible rows only); the
\* row clicked last becomes the current row
SelectRows ==
    /\ gui = "idle"
    /\ Counted
    /\ \E sel \in Selections(Len(table)) :
           /\ Range(sel) # Range(selection)
           /\ \A k \in 1..Len(sel) : ~table[sel[k] + 1].hidden
           /\ LET cur == IF sel = <<>> THEN current_row ELSE Last(sel)
                  w == SetSelection(Window, sel, cur)
              IN  Install(w) /\ History("select", w)
    /\ UNCHANGED OtherVars

\* the user changes the text of one editor field (of a selected row: with
\* no row selected the slot returns at once)
TypeText ==
    /\ gui = "idle"
    /\ Counted
    /\ selection # <<>>
    /\ \E field \in TypedFields, text \in TypedTexts :
           /\ text # inputs[field]
           /\ LET w == SetText(Window, field, text)
              IN  Install(w) /\ History("edit", w)
    /\ UNCHANGED OtherVars

\* the user clicks a column header
SortByColumn ==
    /\ gui = "idle"
    /\ Counted
    /\ sorting_enabled
    /\ \E col \in {"group", "name", "url"}, descending \in BOOLEAN :
           LET w == sortByColumn(Window, col, descending)
           IN  Install(w) /\ History("sort", w)
    /\ UNCHANGED OtherVars

\* the user changes the search text or the group filter
FilterTable ==
    /\ gui = "idle"
    /\ Counted
    /\ \E text \in TypedTexts,
          group_filter \in {ALL_GROUPS} \cup {entries[i].group : i \in 1..Len(entries)} :
           LET w == filter_table(Window, text, group_filter)
           IN  Install(w) /\ History("filter", w)
    /\ UNCHANGED OtherVars

\* the Find Duplicates button
FindDuplicates ==
    /\ gui = "idle"
    /\ Counted
    /\ \E reply \in BOOLEAN, yes \in BOOLEAN :
           LET w == find_duplicates(Window, reply, yes)
           IN  Install(w) /\ History("find_duplicates", w)
    /\ duplicate_rows' = DuplicateRows(entries)
    /\ UNCHANGED <<disk, threads, validator_thread, events, gui, objs, parser>>

\* the Remove Invalid button
RemoveInvalidStreams ==
    /\ gui = "idle"
    /\ Counted
    /\ \E yes \in BOOLEAN :
           LET w == remove_invalid_streams(Window, yes)
           IN  Install(w) /\ History("remove_invalid_streams", w)
    /\ UNCHANGED OtherVars

(* StreamValidator: the worker thread.  A signal it emits is queued in     *)
(* events; run() is followed step by step, check_url as one step.          *)

\* what urlopen can do: return a response with a status, raise HTTPError
\* with a code, or raise another exception with a text
Response(status) == [kind |-> "response", status |-> status, text |-> <<>>]

HTTPError(code) == [kind |-> "http_error", status |-> code, text |-> <<>>]

OtherError(text) == [kind |-> "error", status |-> 0, text |-> text]

NoOutcome == [kind |-> "none", status |-> 0, text |-> <<>>]

TIMED_OUT == <<"t", "i", "m", "e", "d", " ", "o", "u", "t">>

ResponseStatuses == {199, 200, 302, 399, 400}

ErrorCodes == {304, 404, 405, 500}

ErrorTexts == {TIMED_OUT, <<>>}

Outcomes ==
    {Response(n) : n \in ResponseStatuses} \cup {HTTPError(n) : n \in ErrorCodes}
        \cup {OtherError(text) : text \in ErrorTexts}

\* str(n) for a natural number n
DigitChars == <<"0", "1", "2", "3", "4", "5", "6", "7", "8", "9">>

RECURSIVE Digits(_)
Digits(n) ==
    IF n < 10 THEN <<DigitChars[n + 1]>>
    ELSE Digits(n \div 10) \o <<DigitChars[(n % 10) + 1]>>

OK_MSG(status) == <<"O", "K", " ", "(">> \o Digits(status) \o <<")">>

STATUS_MSG(status) ==
    <<"S", "t", "a", "t", "u", "s", ":", " ">> \o Digits(status)

HTTP_MSG(code) == <<"H", "T", "T", "P", " ">> \o Digits(code)

ERROR_MSG(text) == <<"E", "r", "r", "o", "r", ":", " ">> \o text

\* the value check_url hands back: raised tells that it left by an
\* exception instead; methods are the requests it made
Checked(is_valid, msg, methods) ==
    [raised |-> FALSE, is_valid |-> is_valid, msg |-> msg, methods |-> methods]

\* a faulty check_url that tries GET after every HTTPError
check_url_retrying_all(head, get) ==
    IF head.kind = "response"
    THEN IF 200 <= head.status /\ head.status < 400
         THEN Checked(TRUE, OK_MSG(head.status), <<"HEAD">>)
         ELSE Checked(FALSE, STATUS_MSG(head.status), <<"HEAD">>)
    ELSE IF head.kind = "http_error"
    THEN IF get.kind = "response" /\ 200 <= get.status /\ get.status < 400
         THEN Checked(TRUE, OK_MSG(get.status), <<"HEAD", "GET">>)
         ELSE Checked(FALSE, HTTP_MSG(head.status), <<"HEAD", "GET">>)
    ELSE Checked(FALSE, ERROR_MSG(head.text), <<"HEAD">>)

\* a faulty check_url that lets exceptions other than HTTPError through
check_url_raising(head, get) ==
    IF head.kind = "response"
    THEN IF 200 <= head.status /\ head.status < 400
         THEN Checked(TRUE, OK_MSG(head.status), <<"HEAD">>)
         ELSE Checked(FALSE, STATUS_MSG(head.status), <<"HEAD">>)
    ELSE IF head.kind = "http_error"
    THEN IF head.status = 405
         THEN IF get.kind = "response" /\ 200 <= get.status /\ get.status < 400
              THEN Checked(TRUE, OK_MSG(get.status), <<"HEAD", "GET">>)
              ELSE Checked(FALSE, HTTP_MSG(head.status), <<"HEAD", "GET">>)
         ELSE Checked(FALSE, HTTP_MSG(head.status), <<"HEAD">>)
    ELSE [Checked(FALSE, <<>>, <<"HEAD">>) EXCEPT !.raised = TRUE]

\* StreamValidator.check_url; head: what urlopen does with the HEAD
\* request, get: what it does with the GET request, if one is made
check_url(head, get) ==
    IF head.kind = "response"
    THEN IF 200 <= head.status /\ head.status < 400
         THEN Checked(TRUE, OK_MSG(head.status), <<"HEAD">>)
         ELSE Checked(FALSE, STATUS_MSG(head.status), <<"HEAD">>)
    ELSE IF head.kind = "http_error"
    THEN IF head.status = 405
         THEN IF get.kind = "response" /\ 200 <= get.status /\ get.status < 400
              THEN Checked(TRUE, OK_MSG(get.status), <<"HEAD", "GET">>)
              ELSE Checked(FALSE, HTTP_MSG(head.status), <<"HEAD", "GET">>)
         ELSE Checked(FALSE, HTTP_MSG(head.status), <<"HEAD">>)
    ELSE Checked(FALSE, ERROR_MSG(head.text), <<"HEAD">>)

\* StreamValidator.__init__ and start(); i: the position of run()'s loop,
\* checked: what check_url handed back for the task in hand.  History kept
\* with it: log, the calls of check_url with what urlopen did, and
\* seen_stop, whether the loop has been entered with is_running false
StreamValidator(tasks) ==
    [tasks |-> tasks, is_running |-> TRUE, i |-> 0, pc |-> "check",
     checked |-> Checked(FALSE, <<>>, <<>>), log |-> <<>>, seen_stop |-> FALSE]

\* a faulty loop head that does not look at is_running
loop_head_ignoring_stop(t) ==
    IF t.i >= Len(t.tasks) THEN [t EXCEPT !.pc = "finished"]
    ELSE [t EXCEPT !.pc = "check_url"]

\* StreamValidator.run, the head of the loop: the next task, if there is
\* one and is_running holds
loop_head(t) ==
    IF t.i >= Len(t.tasks) THEN [t EXCEPT !.pc = "finished"]
    ELSE IF ~t.is_running THEN [t EXCEPT !.pc = "finished"]
    ELSE [t EXCEPT !.pc = "check_url"]

\* the signals of StreamValidator, as queued
Signal(name, a, b, c) == [signal |-> name, a |-> a, b |-> b, c |-> c]

\* the window and its history stay as they are while the thread works
WindowVars ==
    <<entries, table, selection, current_row, undo_stack, redo_stack,
      editing_started, inputs, status_label, sorting_enabled, disk,
      validator_thread, gui, duplicate_rows, last_op, snaps, chain, steps,
      pre, objs, parser, session, track>>

\* run() reaches the head of its loop
RunLoopHead ==
    \E n \in DOMAIN threads :
    /\ threads[n].pc = "check"
    /\ threads' = [threads EXCEPT ![n] =
           [loop_head(threads[n]) EXCEPT !.seen_stop =
               @ \/ (threads[n].i < Len(threads[n].tasks)
                        /\ ~threads[n].is_running)]]
    /\ UNCHANGED <<events, WindowVars>>

\* run() calls check_url for the task in hand
RunCheckUrl ==
    \E n \in DOMAIN threads :
    /\ threads[n].pc = "check_url"
    /\ \E head \in Outcomes, get \in Outcomes :
           LET t == threads[n]
               c == check_url(head, get)
               made == [task |-> t.i, methods |-> c.methods, head |-> head,
                        get |-> IF Len(c.methods) > 1 THEN get ELSE NoOutcome]
           IN  threads' = [threads EXCEPT ![n] =
                   [t EXCEPT !.checked = c, !.log = Append(@, made),
                             !.pc = IF c.raised THEN "raised" ELSE "result"]]
    /\ UNCHANGED <<events, WindowVars>>

\* self.result.emit(row, is_valid, msg)
RunEmitResult ==
    \E n \in DOMAIN threads :
    /\ threads[n].pc = "result"
    /\ LET t == threads[n]
       IN  /\ events' = Append(events, Signal("result", t.tasks[t.i + 1][1],
                                              t.checked.is_valid, t.checked.msg))
           /\ threads' = [threads EXCEPT ![n].pc = "progress"]
    /\ UNCHANGED WindowVars

\* a progress signal that counts from 0: self.progress.emit(i, total)
RunEmitProgress_from_zero ==
    \E n \in DOMAIN threads :
    /\ threads[n].pc = "progress"
    /\ LET t == threads[n]
       IN  /\ events' = Append(events, Signal("progress", t.i,
                                              Len(t.tasks), <<>>))
           /\ threads' = [threads EXCEPT ![n].pc = "check", ![n].i = @ + 1]
    /\ UNCHANGED WindowVars

\* self.progress.emit(i + 1, total), and on to the next task
RunEmitProgress ==
    \E n \in DOMAIN threads :
    /\ threads[n].pc = "progress"
    /\ LET t == threads[n]
       IN  /\ events' = Append(events, Signal("progress", t.i + 1,
                                              Len(t.tasks), <<>>))
           /\ threads' = [threads EXCEPT ![n].pc = "check", ![n].i = @ + 1]
    /\ UNCHANGED WindowVars

\* run() has returned: QThread emits finished
RunFinished ==
    \E n \in DOMAIN threads :
    /\ threads[n].pc = "finished"
    /\ events' = Append(events, Signal("finished", 0, 0, <<>>))
    /\ threads' = [threads EXCEPT ![n].pc = "done"]
    /\ UNCHANGED WindowVars

\* StreamValidator.stop, called from another thread
Stop ==
    \E n \in DOMAIN threads :
    /\ threads[n].is_running
    /\ threads' = [threads EXCEPT ![n].is_running = FALSE]
    /\ UNCHANGED <<events, WindowVars>>

\* QThread.isRunning() of self.validator_thread
IsRunning(t) == t.pc # "done"

\* what an exception that leaves a slot does to the application: PyQt
\* reports it and goes on, or aborts the process
AfterException == {"idle", "aborted"}

\* the Check Stream Health button: M3UEditorWindow.validate_streams.
\* With a run active it stops the run and blocks in wait().  Otherwise, with
\* rows to check, the handler is left by the ValueError of its colour-reset
\* loop, after it has disabled sorting and set the status text, and before
\* it creates the StreamValidator.
ValidateStreams ==
    /\ gui = "idle"
    /\ Counted
    /\ IF validator_thread # 0 /\ IsRunning(threads[validator_thread])
       THEN /\ threads' = [threads EXCEPT ![validator_thread].is_running = FALSE]
            /\ gui' = "wait"
            /\ Install(Window) /\ History("validate_stop", Window)
            /\ UNCHANGED <<validator_thread, events>>
       ELSE LET rows_to_check == RowsToCheck(Window)
            IN  IF rows_to_check = <<>>
                THEN /\ Install(Window) /\ History("validate_nothing", Window)
                     /\ UNCHANGED <<threads, validator_thread, events, gui>>
                ELSE LET w == [Window EXCEPT !.sorting_enabled = FALSE,
                                             !.status_label = "Validating"]
                     IN  IF ResetColoursRaises(rows_to_check)
                         THEN /\ Install(w) /\ History("validate_streams", w)
                              /\ gui' \in AfterException
                              /\ UNCHANGED <<threads, validator_thread, events>>
                         ELSE /\ Install(w) /\ History("validate_streams", w)
                              /\ threads' = Append(threads,
                                     StreamValidator(rows_to_check))
                              /\ validator_thread' = Len(threads) + 1
                              /\ UNCHANGED <<events, gui>>
    /\ UNCHANGED <<disk, duplicate_rows, objs, parser>>

\* a playlist file found on disk next to the application
SampleEntries ==
    << [M3UEntry(<<"x">>, <<"u">>) EXCEPT !.group = <<"b">>],
       [M3UEntry(<<"y">>, <<"u">>) EXCEPT !.group = <<"a">>] >>

SampleFile == SaveText(SampleEntries)

\* the Load button; the dialog is cancelled, or a file is chosen: the sample
\* file, or one that cannot be read
LoadM3U ==
    /\ gui = "idle"
    /\ Counted
    /\ \E file \in {File(SampleFile), NoFile} :
           LET w == load_m3u(Window, file)
           IN  Install(w)
               /\ History(IF file.readable THEN "load" ELSE "load_failed", w)
    /\ UNCHANGED OtherVars

\* the Load URL button, with a URL entered: the content arrives, or the
\* request fails
LoadM3UFromUrl ==
    /\ gui = "idle"
    /\ Counted
    /\ \E response \in {File(SampleFile), NoFile} :
           LET w == load_m3u_from_url(Window, response)
           IN  Install(w)
               /\ History(IF response.readable THEN "load_url"
                          ELSE "load_url_failed", w)
    /\ UNCHANGED OtherVars

--------------------------------------------------------------------------
(* Specifications *)

Next ==
    \/ Undo
    \/ Redo
    \/ AddEntry
    \/ DeleteEntry
    \/ MoveUp
    \/ MoveDown
    \/ BulkEditGroup
    \/ SelectRows
    \/ TypeText
    \/ SortByColumn
    \/ FilterTable
    \/ FindDuplicates
    \/ RemoveInvalidStreams
    \/ ValidateStreams
    \/ LoadM3U
    \/ LoadM3UFromUrl

Spec == Init /\ [][Next]_vars


\* the window with verdicts arriving at its slot on_validation_result, as
\* the result signal connected in validate_streams delivers them: a row
\* number of the table as it was when the run was requested, and a verdict
OnValidationResult ==
    /\ gui = "idle"
    /\ Counted
    /\ \E row_index \in 0..(MaxEntries - 1), is_valid \in BOOLEAN :
           LET w == on_validation_result(Window, row_index, is_valid)
           IN  Install(w) /\ History("on_validation_result", w)
    /\ UNCHANGED OtherVars

SlotNext == Next \/ OnValidationResult

SlotSpec == Init /\ [][SlotNext]_vars

\* the window with a validation run under way: the StreamValidator that
\* lines 858-862 of validate_streams make over rows_to_check, and its
\* results arriving one by one, in task order and with the row number of
\* their task, at the slot on_validation_result, while the user adds,
\* deletes, moves and undoes
RunEntries == <<M3UEntry(<<"x">>, <<"u">>), M3UEntry(<<"y">>, <<"v">>)>>

RunInit == Loaded(RunEntries)

StartRun ==
    /\ gui = "idle"
    /\ Counted
    /\ validator_thread = 0
    /\ RowsToCheck(Window) # <<>>
    /\ LET w == [Window EXCEPT !.sorting_enabled = FALSE,
                               !.status_label = "Validating"]
       IN  Install(w) /\ History("validate_streams", w)
    /\ threads' = Append(threads, StreamValidator(RowsToCheck(Window)))
    /\ validator_thread' = Len(threads) + 1
    /\ UNCHANGED <<disk, events, gui, duplicate_rows, objs, parser>>

DeliverResult ==
    /\ gui = "idle"
    /\ Counted
    /\ validator_thread # 0
    /\ LET t == threads[validator_thread]
       IN  /\ t.i < Len(t.tasks)
           /\ \E is_valid \in BOOLEAN :
                  LET w == on_validation_result(Window, t.tasks[t.i + 1][1],
                                                is_valid)
                  IN  Install(w) /\ History("on_validation_result", w)
           /\ threads' = [threads EXCEPT ![validator_thread].i = @ + 1]
    /\ UNCHANGED <<disk, validator_thread, events, gui, duplicate_rows, objs,
                   parser>>

RunNext ==
    \/ StartRun
    \/ DeliverResult
    \/ AddEntry
    \/ DeleteEntry
    \/ MoveUp
    \/ MoveDown
    \/ Undo
    \/ SelectRows

RunSpec == RunInit /\ [][RunNext]_vars

\* the handlers that take, give back or could reach into a snapshot, followed
\* on the objects for MaxObjSteps handlers from the empty playlist
NotObjs ==
    <<entries, table, selection, current_row, undo_stack, redo_stack,
      editing_started, inputs, status_label, sorting_enabled, disk, threads,
      validator_thread, events, gui, duplicate_rows, last_op, snaps, chain,
      pre, parser, session, track>>

\* handler op has run and left the objects as o
Handled(op, o) ==
    /\ steps < MaxObjSteps
    /\ steps' = steps + 1
    /\ objs' = Collect([o EXCEPT !.op = op])
    /\ UNCHANGED NotObjs

ObjAddEntry ==
    /\ gui = "idle"
    /\ Len(objs.entries) < MaxObjEntries
    /\ Handled("add_entry", add_entry_obj(objs))

ObjUndo ==
    /\ gui = "idle"
    /\ Handled("undo", undo_obj(objs))

ObjRedo ==
    /\ gui = "idle"
    /\ Handled("redo", redo_obj(objs))

ObjSelectRows ==
    /\ gui = "idle"
    /\ \E sel \in Selections(Len(objs.entries)) :
           /\ Range(sel) # Range(objs.selection)
           /\ Handled("select", on_selection_changed_obj(objs, sel))

ObjTypeText ==
    /\ gui = "idle"
    /\ objs.selection # <<>>
    /\ \E f \in TypedFields, text \in TypedTexts :
           /\ objs.heap[objs.entries[objs.selection[1] + 1]][f] # text
           /\ Handled("edit", update_current_entry_data_obj(objs, f, text))

ObjBulkEditGroup ==
    /\ gui = "idle"
    /\ \E new_group \in TypedTexts :
           Handled("bulk_edit_group", bulk_edit_group_obj(objs, new_group))

ObjOnValidationResult ==
    /\ gui = "idle"
    /\ \E row_index \in 0..(MaxObjEntries - 1), is_valid \in BOOLEAN :
           Handled("on_validation_result",
                   on_validation_result_obj(objs, row_index, is_valid))

ObjNext ==
    \/ ObjAddEntry
    \/ ObjUndo
    \/ ObjRedo
    \/ ObjSelectRows
    \/ ObjTypeText
    \/ ObjBulkEditGroup
    \/ ObjOnValidationResult

ObjSpec == Init /\ [][ObjNext]_vars

\* parse_lines on its own: every list of up to MaxLines of these lines
\* a line of blanks
LINE_BLANK ==
    <<" ">>
\* the format marker
LINE_HEADER ==
    <<"#", "E", "X", "T", "M", "3", "U">>
\* duration and name, no attributes
LINE_PLAIN ==
    <<"#", "E", "X", "T", "I", "N", "F", ":", "-", "1", ",", "X">>
\* the same with a blank after the comma
LINE_SPACED ==
    <<"#", "E", "X", "T", "I", "N", "F", ":", "-", "1", ",", " ", "X">>
\* a duration other than -1
LINE_FIVE ==
    <<"#", "E", "X", "T", "I", "N", "F", ":", "5", ",", "N">>
\* attributes
LINE_ATTRS ==
    <<"#", "E", "X", "T", "I", "N", "F", ":", "-", "1", " ", "g", "r", "o", "u", "p", "-", "t", "i", "t", "l", "e", "=", "\"", "g", "\"", " ", "t", "v", "g", "-", "l", "o", "g", "o", "=", "\"", "l", "\"", ",", "N">>
\* no duration: the grammar does not match
LINE_NO_DURATION ==
    <<"#", "E", "X", "T", "I", "N", "F", ":", ",", "N">>
\* digits and minus signs that are no integer
LINE_BAD_DURATION ==
    <<"#", "E", "X", "T", "I", "N", "F", ":", "1", "-", ",", "N">>
\* no comma: the grammar does not match
LINE_NO_COMMA ==
    <<"#", "E", "X", "T", "I", "N", "F", ":", "-", "1">>
\* a user-agent option
LINE_UA ==
    <<"#", "E", "X", "T", "V", "L", "C", "O", "P", "T", ":", "h", "t", "t", "p", "-", "u", "s", "e", "r", "-", "a", "g", "e", "n", "t", "=", "u">>
\* the key in other case
LINE_UA_UPPER ==
    <<"#", "E", "X", "T", "V", "L", "C", "O", "P", "T", ":", "H", "t", "t", "p", "-", "U", "s", "e", "r", "-", "A", "g", "e", "n", "t", "=", "b">>
\* an option that is not the user agent, without "="
LINE_OPTION ==
    <<"#", "E", "X", "T", "V", "L", "C", "O", "P", "T", ":", "x">>
\* an unknown comment
LINE_COMMENT ==
    <<"#", "c">>
\* a URL
LINE_URL ==
    <<"u">>
\* a URL between blanks, with its newline
LINE_URL_BLANKS ==
    <<" ", "v", "\n">>

SampleLines ==
    {LINE_BLANK, LINE_HEADER, LINE_PLAIN, LINE_SPACED,
     LINE_FIVE, LINE_ATTRS, LINE_NO_DURATION, LINE_BAD_DURATION,
     LINE_NO_COMMA, LINE_UA, LINE_UA_UPPER, LINE_OPTION,
     LINE_COMMENT, LINE_URL, LINE_URL_BLANKS}

RECURSIVE ListsUpTo(_, _)
ListsUpTo(S, n) ==
    IF n = 0 THEN {<<>>}
    ELSE LET shorter == ListsUpTo(S, n - 1)
         IN  shorter \cup {Append(l, x) : l \in shorter, x \in S}

ParserInit ==
    /\ Constructed(<<>>, <<>>)
    /\ \E lines \in ListsUpTo(SampleLines, MaxLines) : parser = Call(lines)

ParserVars ==
    <<entries, table, selection, current_row, undo_stack, redo_stack,
      editing_started, inputs, status_label, sorting_enabled, disk, threads,
      validator_thread, events, gui, duplicate_rows, last_op, snaps, chain,
      steps, pre, objs, session, track>>

\* the loop of parse_lines takes its next line
ParseLinesStep ==
    /\ parser.status = "running"
    /\ parser.i < Len(parser.lines)
    /\ parser' = parse_lines_step(parser)
    /\ UNCHANGED ParserVars

\* the loop is over: return entries
ParseLinesReturn ==
    /\ parser.status = "running"
    /\ parser.i = Len(parser.lines)
    /\ parser' = [parser EXCEPT !.status = "returned"]
    /\ UNCHANGED ParserVars

ParserNext == ParseLinesStep \/ ParseLinesReturn

ParserSpec == ParserInit /\ [][ParserNext]_vars


\* the edit history driven to its depth limit: add_entry, undo, redo
HistNext == DeepAddEntry \/ DeepUndo \/ DeepRedo

\* the playlists the deep-history specification starts from
DeepStarts == {<<>>, <<M3UEntry(<<"a">>, <<"u">>)>>}

HistInit == \E p \in DeepStarts : Loaded(p)

HistSpec == HistInit /\ [][HistNext]_vars


\* the Save button with a file name chosen, and the Load button on the file
\* that was saved
SaveM3U ==
    /\ gui = "idle"
    /\ entries # <<>>
    /\ LET w == save_m3u(Window)
       IN  /\ Install(w) /\ History("save_m3u", w)
           /\ disk' = save_file(w.entries)
    /\ UNCHANGED <<threads, validator_thread, events, gui, duplicate_rows,
                   steps, track, objs, parser>>

\* the Save button with a file name chosen, when the file cannot be opened
\* or a write fails
SaveM3UFails ==
    /\ gui = "idle"
    /\ entries # <<>>
    /\ LET w == save_m3u_failing(Window)
       IN  /\ Install(w) /\ History("save_failed", w)
           /\ \E written \in -1..Len(w.entries) :
                  disk' = save_file_raising(w.entries, disk, written)
    /\ UNCHANGED <<threads, validator_thread, events, gui, duplicate_rows,
                   steps, track, objs, parser>>

LoadSaved ==
    /\ gui = "idle"
    /\ disk.readable
    /\ LET w == load_m3u(Window, disk)
       IN  Install(w) /\ History("load", w)
    /\ UNCHANGED <<OtherVars, steps, track>>

\* the codec on its own: playlists of up to MaxCodecLen entries, saved and
\* loaded back
MaxCodecLen == 2

CodecEntries ==
    { [M3UEntry(name, <<"u">>) EXCEPT !.group = group, !.logo = logo,
                                      !.duration = duration,
                                      !.user_agent = user_agent] :
        name \in {<<"n">>, <<"a", ",", "b">>},
        group \in {<<>>, <<"g">>},
        logo \in {<<>>, <<"l">>},
        duration \in {MINUS_ONE, <<"0">>},
        user_agent \in {<<>>, <<"m">>} }

CodecPlaylists ==
    UNION { [1..n -> CodecEntries] : n \in 1..MaxCodecLen }

CodecInit == \E p \in CodecPlaylists : Loaded(p)

CodecNext == SaveM3U \/ SaveM3UFails \/ LoadSaved

CodecSpec == CodecInit /\ [][CodecNext]_vars

\* the duplicate search on its own: playlists of DupLen entries whose URLs
\* are drawn from DupUrls
DupLen == 5

DupUrls == {<<"a">>, <<"b">>, <<"c">>, <<"A">>}

DupPlaylists ==
    { [i \in 1..DupLen |-> M3UEntry(<<"n">>, urls[i])] :
        urls \in [1..DupLen -> DupUrls] }

DupInit == \E p \in DupPlaylists : Loaded(p)

DupNext == FindDuplicates

DupSpec == DupInit /\ [][DupNext]_vars

\* the worker thread on its own: a StreamValidator made over up to
\* MaxTasks tasks and started, stopped at any moment or never
MaxTasks == 2

TaskLists ==
    UNION { { [k \in 1..n |-> <<rows[k], <<"u">>, <<>>>>] :
                rows \in {f \in [1..n -> 0..(MaxTasks - 1)] :
                              \A j, k \in 1..n : j # k => f[j] # f[k]} } :
            n \in 0..MaxTasks }

ValidatorInit == \E tasks \in TaskLists : Started(<<>>, <<StreamValidator(tasks)>>)

ValidatorNext ==
    \/ RunLoopHead
    \/ RunCheckUrl
    \/ RunEmitResult
    \/ RunEmitProgress
    \/ RunFinished
    \/ Stop

ValidatorSpec == ValidatorInit /\ [][ValidatorNext]_vars


--------------------------------------------------------------------------
(* Claims *)

\* C1: from a playlist P0 and an empty history, N handlers that each take a
\* snapshot and then change the playlist (1 <= N <= 50), followed by N undos
\* in a row, leave the playlist equal to P0.
C1_UndosRestoreOriginal ==
    (track.pushes >= 1 /\ track.pushes <= MaxDepth /\ track.undos = track.pushes)
        => entries = track.base

C1_Witness ==
    /\ last_op = "undo"
    /\ track.pushes = MaxDepth
    /\ track.undos = MaxDepth
    /\ track.base # <<>>

\* C2: with a snapshot on the undo stack, undo followed at once by redo
\* leaves the playlist, the undo stack and the redo stack as they were
\* before the undo.
C2_UndoThenRedoRestores ==
    (last_op = "redo" /\ pre.valid) =>
        /\ entries = pre.entries
        /\ undo_stack = pre.undo_stack
        /\ redo_stack = pre.redo_stack

C2_Witness ==
    /\ last_op = "redo"
    /\ pre.valid
    /\ undo_stack # <<>>
    /\ redo_stack # <<>>
    /\ entries # <<>>

\* C3: a handler that takes a snapshot leaves the redo stack empty; hence
\* after an undo and then a handler that took a snapshot, redo changes
\* neither the playlist nor the stacks.
C3_SnapshotClearsRedo ==
    [][ /\ snaps' > 0 => redo_stack' = <<>>
        /\ (chain = 2 /\ last_op' \in {"redo", "redo_nothing"}) =>
               UNCHANGED <<entries, undo_stack, redo_stack>> ]_vars

C3_Witness ==
    /\ chain = 3
    /\ last_op = "redo_nothing"
    /\ entries # <<>>

\* C4: the undo stack never holds more than max_depth = 50 snapshots.
C4_UndoStackAtMostMaxDepth == Len(undo_stack) <= MaxDepth

\* C5: undo with an empty undo stack, and redo with an empty redo stack,
\* only set the status text: playlist, undo stack and redo stack stay as
\* they are, and the application goes on.
C5_EmptyStackOnlyReports ==
    [][ /\ last_op' = "undo_nothing" =>
               /\ UNCHANGED <<entries, undo_stack, redo_stack>>
               /\ status_label' = "Nothing to undo."
               /\ gui' = "idle"
        /\ last_op' = "redo_nothing" =>
               /\ UNCHANGED <<entries, undo_stack, redo_stack>>
               /\ status_label' = "Nothing to redo."
               /\ gui' = "idle" ]_vars

C5_Witness ==
    /\ last_op = "redo_nothing"
    /\ status_label = "Nothing to redo."
    /\ entries # <<>>
    /\ undo_stack # <<>>

\* the fields the round trip is to preserve
SameFields(p, q) ==
    /\ Len(p) = Len(q)
    /\ \A i \in 1..Len(p) :
           /\ p[i].name = q[i].name
           /\ p[i].url = q[i].url
           /\ p[i].group = q[i].group
           /\ p[i].logo = q[i].logo
           /\ p[i].duration = q[i].duration
           /\ p[i].user_agent = q[i].user_agent

\* C6: parsing the text written for a playlist P gives back a playlist of
\* the same length and order whose entries agree with those of P on name,
\* url, group, logo, duration and user agent.
C6_RoundTrip ==
    [][ (last_op = "save_m3u" /\ last_op' = "load") =>
            SameFields(entries', entries) ]_vars

\* the rows find-duplicates is to flag: those whose URL occurs earlier
Flagged(es) ==
    { i \in 0..(Len(es) - 1) :
        \E j \in 0..(i - 1) : es[j + 1].url = es[i + 1].url }

\* C7: find_duplicates flags exactly the rows whose URL, compared exactly,
\* occurs at an earlier row, in increasing order; a first occurrence is
\* never flagged.
C7_FlagsLaterOccurrences ==
    [][ last_op' = "find_duplicates" =>
            /\ Range(duplicate_rows') = Flagged(entries)
            /\ \A k \in 1..(Len(duplicate_rows') - 1) :
                   duplicate_rows'[k] < duplicate_rows'[k + 1] ]_vars

C7_Witness ==
    /\ last_op = "find_duplicates"
    /\ [i \in 1..Len(entries) |-> entries[i].url]
           = << <<"a">>, <<"b">>, <<"a">>, <<"c">>, <<"a">> >>
    /\ duplicate_rows = <<2, 4>>

\* C8: move_up with row 0 selected, and move_down with the last row
\* selected, leave the order of the entries as it was.
C8_BoundaryMoveKeepsOrder ==
    [][ (/\ selection # <<>>
         /\ \/ last_op' = "move_up" /\ selection[1] = 0
            \/ last_op' = "move_down" /\ selection[1] = Len(table) - 1)
            => entries' = entries ]_vars

\* C9: a validation request made while no run is active, with rows to
\* check, starts a run over exactly those rows.
C9_RequestStartsRun ==
    last_op = "validate_streams" =>
        /\ validator_thread # 0
        /\ IsRunning(threads[validator_thread])
        /\ threads[validator_thread].tasks = RowsToCheck(Window)

\* the result signals among evs, in the order they were emitted
IsResult(e) == e.signal = "result"

Results(evs) == SelectSeq(evs, IsResult)

IsFinished(e) == e.signal = "finished"

Completions(evs) == Len(SelectSeq(evs, IsFinished))

\* the results are those of the first tasks of t, in order
ResultsOfPrefix(evs, t) ==
    /\ Len(Results(evs)) <= Len(t.tasks)
    /\ \A k \in 1..Len(Results(evs)) : Results(evs)[k].a = t.tasks[k][1]

\* C11: once run() has come to the head of its loop with a stop requested,
\* it starts no further probe; it ends with results for a prefix of the
\* task list only, and finished is emitted exactly once.
C11_NoProbeAfterStopSeen ==
    [][ \A n \in DOMAIN threads :
            /\ threads[n].seen_stop => threads'[n].log = threads[n].log
            /\ ResultsOfPrefix(events', threads'[n])
            /\ Completions(events') <= 1
            /\ threads'[n].pc = "done" => Completions(events') = 1 ]_vars

C11_Witness ==
    /\ threads[1].pc = "done"
    /\ threads[1].seen_stop
    /\ Len(threads[1].tasks) = 2
    /\ Len(Results(events)) = 1
    /\ Completions(events) = 1

InRange(outcome) ==
    outcome.kind = "response" /\ 200 <= outcome.status /\ outcome.status < 400

\* C12: a task is reported valid exactly when HEAD was answered with a
\* status in [200,400), or HEAD was rejected with 405 and the GET retry was
\* answered with a status in [200,400); GET is tried only after a 405 and
\* once; anything else is invalid with a reason; a 200 gives "OK (200)".
C12_CheckUrlPolicy ==
    \A n \in DOMAIN threads :
        LET t == threads[n]
        IN  /\ \A k \in 1..Len(t.log) :
                   /\ t.log[k].methods \in {<<"HEAD">>, <<"HEAD", "GET">>}
                   /\ Len(t.log[k].methods) = 2 => t.log[k].head = HTTPError(405)
            /\ \A k \in 1..Len(Results(events)) :
                   LET made == t.log[k]
                       r == Results(events)[k]
                   IN  /\ r.b <=> \/ InRange(made.head)
                                  \/ /\ made.head = HTTPError(405)
                                     /\ InRange(made.get)
                       /\ ~r.b => r.c # <<>>
                       /\ made.head = Response(200) =>
                              r.c = <<"O", "K", " ", "(", "2", "0", "0", ")">>

C12_Witness ==
    /\ Len(Results(events)) = 2
    /\ threads[1].log[1].head = HTTPError(405)
    /\ threads[1].log[1].get = Response(200)
    /\ Results(events)[1].b
    /\ threads[1].log[2].head = HTTPError(405)
    /\ threads[1].log[2].get = OtherError(TIMED_OUT)
    /\ ~Results(events)[2].b

\* what urlopen did is a failure of the probe
ProbeFailed(made) ==
    ~InRange(made.head) /\ ~(made.head = HTTPError(405) /\ InRange(made.get))

\* C13: a failed probe never ends the run: the task is reported invalid
\* with a reason and the run goes on, so a run that is not stopped emits
\* one result for each of its tasks.
C13_FailedProbeDoesNotAbort ==
    \A n \in DOMAIN threads :
        LET t == threads[n]
        IN  /\ t.pc # "raised"
            /\ \A k \in 1..Len(Results(events)) :
                   ProbeFailed(t.log[k]) =>
                       ~Results(events)[k].b /\ Results(events)[k].c # <<>>
            /\ (t.pc = "done" /\ t.is_running) =>
                   /\ Len(Results(events)) = Len(t.tasks)
                   /\ ResultsOfPrefix(events, t)

C13_Witness ==
    /\ threads[1].pc = "done"
    /\ threads[1].is_running
    /\ Len(threads[1].tasks) = 2
    /\ threads[1].log[1].head = OtherError(TIMED_OUT)
    /\ threads[1].log[2].head = HTTPError(404)
    /\ Len(Results(events)) = 2

\* C14: a load, from a file or from a URL, that fails because the source
\* cannot be read leaves the playlist as it was.
C14_FailedLoadKeepsPlaylist ==
    [][ last_op' \in {"load_failed", "load_url_failed"} =>
            entries' = entries ]_vars

C14_Witness ==
    /\ last_op = "load_failed"
    /\ Len(entries) = 2
    /\ entries[1].name # entries[2].name

\* C15: a save that fails, on open or after any number of writes, leaves
\* the file with the content it had before.
C15_FailedSaveKeepsFile ==
    [][ last_op' = "save_failed" => disk' = disk ]_vars

\* the handlers of add, delete, move, bulk-set-group and remove-invalid
SnapshotOps ==
    {"add_entry", "delete_entry", "move_up", "move_down", "bulk_edit_group",
     "remove_invalid_streams"}

\* C16: add, delete, move, bulk-set-group and remove-invalid each push
\* exactly one snapshot, the playlist as it was before the operation
\* changed it (so that one undo right after gives that playlist back).
C16_OneSnapshotPerOperation ==
    [][ (last_op' \in SnapshotOps /\ entries' # entries) =>
            /\ snaps' = 1
            /\ undo_stack' = Append(undo_stack, entries) ]_vars

\* the verdict a row carries agrees with the entry behind it: the entry has
\* the URL and the header it had when the verdict was stored
AnnotationCurrent(rows, es) ==
    \A r \in 1..Len(rows) :
        rows[r].valid # "none" =>
            rows[r].probed = <<es[rows[r].entry].url,
                               es[rows[r].entry].user_agent>>

InvalidEntries(rows) ==
    {rows[r].entry : r \in {q \in 1..Len(rows) : rows[q].valid = "invalid"}}

\* the entries of es from position i on whose position is not in gone
RECURSIVE Without(_, _, _)
Without(es, gone, i) ==
    IF i > Len(es) THEN <<>>
    ELSE (IF i \in gone THEN <<>> ELSE <<es[i]>>) \o Without(es, gone, i + 1)

C19_OneSnapshotPerSession ==
    [][ /\ session'.pushed = (IF session'.changes > 0 THEN 1 ELSE 0)
        /\ last_op' = "edit" =>
               undo_stack' = IF session.changes = 0
                             THEN Append(undo_stack, entries)
                             ELSE undo_stack ]_vars

\* a second field change in one session, the first having pushed a snapshot
C19_Witness ==
    /\ last_op = "edit"
    /\ session.changes >= 2
    /\ session.pushed = 1
    /\ undo_stack # <<>>

\* C20: the snapshots share no entry object with the playlist, and no
\* handler changes the contents of an object that a snapshot of the undo
\* stack or of the redo stack holds: a field edit, a bulk group change and
\* the application of a validation result leave every snapshot as it was.
C20_SnapshotsShareNoEntry ==
    [][ /\ Range(objs'.entries) \cap SnapshotObjects(objs') = {}
        /\ \A id \in SnapshotObjects(objs') \cap DOMAIN objs.heap :
               objs'.heap[id] = objs.heap[id] ]_vars

\* an entry edited in place after its snapshot was pushed, the snapshot on
\* the undo stack still holding the entry as it was
C20_Witness ==
    /\ objs.op = "edit"
    /\ objs.undo_stack # <<>>
    /\ objs.selection # <<>>
    /\ LET row == objs.selection[1] + 1
           snapshot == Last(objs.undo_stack)
       IN  /\ row <= Len(snapshot)
           /\ objs.heap[objs.entries[row]].name = <<"a">>
           /\ objs.heap[objs.entries[row]].url = <<"a">>
           /\ objs.heap[snapshot[row]].name = NEW_CHANNEL
           /\ objs.heap[snapshot[row]].url = HTTP_URL

\* C21: parse_lines is total: whatever the lines (metadata lines that do not
\* match the grammar, option lines with no entry pending, unknown comments,
\* blank lines), the call comes to its end and returns a list of entries,
\* without raising.
C21_ParseLinesTotal ==
    /\ parser.status # "raised"
    /\ (parser.status = "returned" /\ parser.lines # <<>>) =>
           /\ parser.i = Len(parser.lines)
           /\ parser.entries = parse_lines(parser.lines)

\* a call that returned after a malformed metadata line, an option line
\* with nothing pending and an unknown comment
C21_Witness ==
    /\ parser.status = "returned"
    /\ parser.lines = <<LINE_OPTION, LINE_NO_DURATION, LINE_COMMENT>>

\* text s is a decimal numeral of an integer >= 0
IsNatural(s) ==
    /\ s # <<>>
    /\ \A k \in 1..Len(s) : s[k] \in DurationChars \ {"-"}

\* C22: every entry parse_lines returns has the duration "-1" or a numeral
\* of an integer >= 0: a metadata line whose duration is absent or
\* malformed yields "-1".
C22_DurationWellFormed ==
    \A k \in 1..Len(parser.entries) :
        \/ parser.entries[k].duration = MINUS_ONE
        \/ IsNatural(parser.entries[k].duration)

\* a line that is neither blank nor a comment: a URL line
IsUrlLine(raw) == Strip(raw) # <<>> /\ Head(Strip(raw)) # "#"

\* the entry that the URL line at position j of lines gives: one entry per
\* URL line, in line order
EntryOf(lines, j) == Cardinality({m \in 1..j : IsUrlLine(lines[m])})

\* a metadata line with a duration and a name and nothing between the
\* duration and the one comma
IsPlainMetadata(raw) ==
    LET line == Strip(raw)
        rest == Drop(line, Len(EXTINF))
        run == RunLength(rest, DurationChars)
    IN  /\ StartsWith(line, EXTINF)
        /\ run >= 1
        /\ Positions(rest, ",") = {run + 1}

\* the metadata lines of the call that carry no attributes and are followed
\* by a URL line, the loop having taken both
PlainPairs ==
    {j \in 1..(parser.i - 1) :
        IsPlainMetadata(parser.lines[j]) /\ IsUrlLine(parser.lines[j + 1])}

IsMetadata(raw) == StartsWith(Strip(raw), EXTINF)

\* the metadata line pending when the loop reaches position j: the last one
\* before j with no URL line after it, as a set that is empty or has that
\* one position
Pending(lines, j) ==
    LET open == {m \in 1..(j - 1) :
                    /\ IsMetadata(lines[m])
                    /\ \A q \in (m + 1)..(j - 1) : ~IsUrlLine(lines[q])}
    IN  IF open = {} THEN {} ELSE {Max(open)}

\* the positions of the URL lines the loop has taken
UrlLinesTaken == {j \in 1..parser.i : IsUrlLine(parser.lines[j])}

\* C26: parse_lines returns one entry per non-blank line that does not start
\* with "#", in line order, with the stripped line as its url: with a
\* metadata line pending the URL line completes that entry, with none
\* pending it gives an entry named "Unknown" with default fields; a
\* metadata line followed by another or by the end of the input before any
\* URL line gives no entry.
C26_OneEntryPerUrlLine ==
    /\ Len(parser.entries) = Cardinality(UrlLinesTaken)
    /\ \A j \in UrlLinesTaken :
           LET e == parser.entries[EntryOf(parser.lines, j)]
               url == Strip(parser.lines[j])
               pending == Pending(parser.lines, j)
           IN  IF pending = {}
               THEN e = M3UEntry(UNKNOWN, url)
               ELSE \A m \in pending :
                        [e EXCEPT !.user_agent = <<>>] =
                        [ParseExtinf(Strip(parser.lines[m])) EXCEPT !.url = url]

\* a metadata line overtaken by another, whose entry the URL line completes,
\* the call having returned the one entry
C26_Witness ==
    /\ parser.status = "returned"
    /\ parser.lines = <<LINE_PLAIN, LINE_ATTRS, LINE_URL_BLANKS>>
    /\ Len(parser.entries) = 1
    /\ parser.entries[1].group = <<"g">>
    /\ parser.entries[1].url = <<"v">>

\* a user-agent option line, and the value it gives
IsUserAgentOption(raw) ==
    /\ StartsWith(Strip(raw), EXTVLCOPT)
    /\ StartsWith(Lower(Strip(Drop(Strip(raw), Len(EXTVLCOPT)))),
                  HTTP_USER_AGENT)

UserAgentOf(raw) ==
    Drop(Strip(Drop(Strip(raw), Len(EXTVLCOPT))), Len(HTTP_USER_AGENT))

\* C27: a user-agent option line (key in any case) sets the user agent of
\* the entry being built and of no other: an entry has the user agent of
\* the last option line between its metadata line and its URL line, and
\* none if there is no such line; an option line with no metadata line
\* pending changes nothing, and no entry changes once it is appended.
C27_UserAgentOfPendingEntryOnly ==
    \A j \in UrlLinesTaken :
        LET e == parser.entries[EntryOf(parser.lines, j)]
            options == {q \in 1..(j - 1) :
                           /\ IsUserAgentOption(parser.lines[q])
                           /\ \E m \in Pending(parser.lines, j) : m < q}
        IN  e.user_agent = IF options = {} THEN <<>>
                           ELSE UserAgentOf(parser.lines[Max(options)])

\* an option line with its key in another case, between a metadata line and
\* its URL line
C27_Witness ==
    /\ parser.status = "returned"
    /\ parser.lines = <<LINE_PLAIN, LINE_UA_UPPER, LINE_URL>>
    /\ Len(parser.entries) = 1
    /\ parser.entries[1].user_agent = <<"b">>

\* the entries a delete is asked to remove, as positions of the playlist:
\* those of the selected rows, which for the delete offered by
\* find_duplicates are the rows flagged as duplicates
AskedToDelete ==
    IF last_op' = "find_duplicates"
    THEN {r + 1 : r \in Range(duplicate_rows')}
    ELSE {table[r + 1].entry : r \in Range(selection)}

\* C25: a confirmed delete removes the entries of all the selected rows and
\* no other, the rest keeping their order; so the delete confirmed after
\* find-duplicates removes every flagged duplicate and leaves no two
\* entries with the same URL.
C25_DeleteRemovesSelected ==
    [][ (last_op' \in {"delete_entry", "find_duplicates"} /\ snaps' > 0) =>
            /\ entries' = Without(entries, AskedToDelete, 1)
            /\ last_op' = "find_duplicates" =>
                   \A a, b \in 1..Len(entries') :
                       entries'[a].url = entries'[b].url => a = b ]_vars

\* C29: with a row i selected that is not at the boundary, move up exchanges
\* the entries at positions i and i - 1 and move down those at i and i + 1;
\* every other position keeps its entry.
C29_MoveExchangesNeighbours ==
    [][ selection # <<>> =>
            LET i == selection[1] + 1
            IN  /\ (last_op' = "move_up" /\ i > 1) =>
                       entries' = Swap(entries, i, i - 1)
                /\ (last_op' = "move_down" /\ i < Len(entries)) =>
                       entries' = Swap(entries, i, i + 1) ]_vars

\* C30: a move that moves nothing (move up of the first row, move down of
\* the last, a move with no row selected) leaves the history as it was: no
\* snapshot is pushed and the redo stack is not cleared.
C30_NoOpMoveKeepsHistory ==
    [][ (\/ last_op' \in {"move_up", "move_down"} /\ selection = <<>>
         \/ last_op' = "move_up" /\ selection # <<>> /\ selection[1] = 0
         \/ /\ last_op' = "move_down"
            /\ selection # <<>>
            /\ selection[1] = Len(table) - 1)
            => /\ undo_stack' = undo_stack
               /\ redo_stack' = redo_stack ]_vars

\* the signals of the run itself: all but QThread's finished
IsOfRun(e) == e.signal # "finished"

\* C28: the results are emitted in task order, the k-th followed at once by
\* the progress signal (k, n), before the next probe starts; the progress
\* counts are 1, 2, ..., never above n, and equal the number of results
\* emitted so far.
C28_ResultThenProgress ==
    \A n \in DOMAIN threads :
        LET t == threads[n]
            evs == SelectSeq(events, IsOfRun)
        IN  /\ \A p \in 1..Len(evs) :
                   IF p % 2 = 1
                   THEN /\ evs[p].signal = "result"
                        /\ evs[p].a = t.tasks[(p + 1) \div 2][1]
                   ELSE /\ evs[p].signal = "progress"
                        /\ evs[p].a = p \div 2
                        /\ evs[p].a = Len(Results(SubSeq(evs, 1, p)))
                        /\ evs[p].b = Len(t.tasks)
                        /\ evs[p].a <= evs[p].b
            /\ Len(t.log) <= (Len(evs) \div 2) + 1

\* a run over two tasks that has emitted both results and both progress
\* signals
C28_Witness ==
    /\ Len(threads[1].tasks) = 2
    /\ Len(Results(events)) = 2
    /\ Len(SelectSeq(events, IsOfRun)) = 4
    /\ threads[1].pc = "done"

C31_FailedLoadKeepsHistory ==
    [][ last_op' = "load_failed" =>
            /\ undo_stack' = undo_stack
            /\ redo_stack' = redo_stack ]_vars

====
